---- MODULE Spec2Model ----
(***************************************************************************)
(* cluster-ops (src-tauri): the interactive exec session commands.         *)
(*                                                                         *)
(*   commands/exec.rs  start_pty_exec, send_exec_input, resize_pty,        *)
(*                     stop_pty_exec over PtySession (Arc<Mutex<Option>>)  *)
(*   commands/pods.rs  exec_into_pod, send_exec_input over crate::PtyState *)
(*   the reader loops both start commands spawn (the output relay)         *)
(*                                                                         *)
(* Every command is an async tauri command: any number of them run         *)
(* concurrently, each as a task of its own.  Call k of the run is task k,   *)
(* a sequence of steps; calls are invoked in the order of their numbers    *)
(* and overlap freely.  A std::sync::Mutex is a holder plus a poison flag. *)
(* Calls into trait objects made while the guard is held                   *)
(* (Write::write_all/flush, MasterPty::resize, Child::kill) return Ok or   *)
(* Err, or unwind, which poisons the mutex.                                *)
(***************************************************************************)
EXTENDS Integers, Sequences, FiniteSets, TLC

\* ---------------------------------------------------------------- bounds
\* commands invoked in a run
MaxCalls == 3
\* reads that return bytes, per reader loop
MaxReads == 2
\* bytes one read returns
MaxChunkLen == 2

Calls == 1..MaxCalls
\* the session a start command creates carries the number of its call
Ids == Calls

\* Option<T>: None is <<>>, Some(v) is <<v>>
None == <<>>
Some(v) == <<v>>
UnwrapOr(o, d) == IF o = None THEN d ELSE o[1]

\* ------------------------------------------------------------ input sets
\* cols, rows: Option<u16> of start_pty_exec; u16 of resize_pty
StartArg == {<<Some(120), None>>}
ResizeArg == {<<100, 40>>}
\* data of send_exec_input
InputData == {<<97>>, <<98, 99>>}
\* bytes a reader can yield: ASCII 'A', the lead byte 0xC3 and the
\* continuation byte 0xA9 of the two-byte sequence of U+00E9
RelayBytes == {65, 195, 169}
RECURSIVE SeqsUpTo(_, _)
SeqsUpTo(S, n) ==
    IF n = 0 THEN {<<>>}
    ELSE LET shorter == SeqsUpTo(S, n - 1)
         IN shorter \cup {Append(s, b) : s \in shorter, b \in S}
AllChunks == SeqsUpTo(RelayBytes, MaxChunkLen) \ {<<>>}

\* ------------------------------------------------- String::from_utf8_lossy
\* Defined on bytes below 0xE0 (one- and two-byte sequences), which is all
\* RelayBytes holds: every byte that is part of no valid sequence becomes
\* U+FFFD.  A String is the sequence of its code points.
IsAscii(b) == b < 128
IsLead2(b) == b >= 194 /\ b <= 223
IsCont(b) == b >= 128 /\ b <= 191
RECURSIVE FromUtf8Lossy(_)
FromUtf8Lossy(bs) ==
    IF bs = <<>> THEN <<>>
    ELSE IF IsAscii(bs[1]) THEN <<bs[1]>> \o FromUtf8Lossy(Tail(bs))
    ELSE IF IsLead2(bs[1]) /\ Len(bs) >= 2 /\ IsCont(bs[2])
         THEN <<(bs[1] - 192) * 64 + (bs[2] - 128)>> \o FromUtf8Lossy(Tail(Tail(bs)))
    ELSE <<65533>> \o FromUtf8Lossy(Tail(bs))

\* the bytes of a String (its UTF-8 encoding), code points below 0x10000
RECURSIVE Utf8Bytes(_)
Utf8Bytes(cs) ==
    IF cs = <<>> THEN <<>>
    ELSE LET c == cs[1]
             enc == IF c < 128 THEN <<c>>
                    ELSE IF c < 2048 THEN <<192 + (c \div 64), 128 + (c % 64)>>
                    ELSE <<224 + (c \div 4096), 128 + ((c \div 64) % 64), 128 + (c % 64)>>
         IN enc \o Utf8Bytes(Tail(cs))

\* ------------------------------------------------------------------ state
VARIABLES
    pc,          \* [Calls -> the step call k stands at]
    loc,         \* [Calls -> its arguments and locals]
    ptySession,  \* exec.rs PtySession.0: the Option<PtySessionInner>
    sessionLock, \* exec.rs PtySession.0: the Mutex
    ptyState,    \* lib.rs PtyState.0: the Option<PtySession>
    stateLock,   \* lib.rs PtyState.0: the Mutex
    proc,        \* [Ids -> the child process of session i]
    writer,      \* [Ids -> the bytes written to / flushed by writer i]
    geom,        \* [Ids -> the geometry of master PTY i]
    dropped,     \* the sessions whose handles were dropped
    relay,       \* [Ids -> the reader loop of session i]
    kubectlProxy, \* lib.rs KubectlProxy.0: the Option<Child> (0: None)
    proxyLock,   \* lib.rs KubectlProxy.0: the Mutex
    stderrLog,   \* [Ids -> stderr_log of call i and its drain thread]
    probed       \* the result of the latest health probe

vars == <<pc, loc, ptySession, sessionLock, ptyState, stateLock, proc, writer,
          geom, dropped, relay, kubectlProxy, proxyLock, stderrLog, probed>>

execVars == <<ptySession, sessionLock>>
podsVars == <<ptyState, stateLock>>
hwVars == <<proc, writer, geom, dropped>>
proxyVars == <<kubectlProxy, proxyLock, stderrLog, probed>>

\* exec.rs PtySessionInner { writer, master, child }; 0 is "no handle"
NoSession == [writer |-> 0, master |-> 0, child |-> 0]
PtySessionInner(w, m, c) == [writer |-> w, master |-> m, child |-> c]
\* lib.rs PtySession { writer, child }
NoPodSession == [writer |-> 0, child |-> 0]
PtySession(w, c) == [writer |-> w, child |-> c]

\* a Mutex: the call holding the guard (0: none) and the poison flag
FreeLock == [holder |-> 0, poisoned |-> FALSE]

\* saw: the child of the session the command found in the slot while it
\* held the guard (0: it found None, or has not looked)
\* attempts: the health probes start_kubectl_proxy has made; elapsed: the
\* milliseconds its health-check loop has lasted; err, detail: the
\* Err(String) a proxy command returned ("": none)
NoDetail == [placeholder |-> FALSE, text |-> <<>>]
NoLoc == [cmd |-> "", data |-> <<>>, cols |-> None, rows |-> None, saw |-> 0,
          attempts |-> 0, elapsed |-> 0, err |-> "", detail |-> NoDetail]

\* kills: calls of Child::kill received; by: the commands that made them;
\* killedBefore: the children that had received a kill when this one was spawned
NoProc == [st |-> "none", kills |-> 0, by |-> {}, killedBefore |-> {}]
NoRelay == [st |-> "none", kind |-> "", buf |-> <<>>, reads |-> <<>>, emits |-> <<>>]
\* proxy.rs stderr_log: the String, and whether the thread filling it runs
NoLog == [open |-> FALSE, buf |-> <<>>]
\* the outcome of client.get(..).send().await: a response with its status,
\* or an error (connection refused, timeout); attempt: the turn of the
\* loop that sent it (0 before it is sent); ms: the time send() took
NoResp == [tag |-> "none", status |-> 0, attempt |-> 0, ms |-> 0]
Response(status) == [tag |-> "resp", status |-> status, attempt |-> 0, ms |-> 0]
SendError == [tag |-> "error", status |-> 0, attempt |-> 0, ms |-> 0]

Init ==
    /\ pc = [t \in Calls |-> "new"]
    /\ loc = [t \in Calls |-> NoLoc]
    /\ ptySession = NoSession
    /\ sessionLock = FreeLock
    /\ ptyState = NoPodSession
    /\ stateLock = FreeLock
    /\ proc = [i \in Ids |-> NoProc]
    /\ writer = [i \in Ids |-> [written |-> <<>>, flushed |-> 0]]
    /\ geom = [i \in Ids |-> <<0, 0>>]
    /\ dropped = {}
    /\ relay = [i \in Ids |-> NoRelay]
    /\ kubectlProxy = 0
    /\ proxyLock = FreeLock
    /\ stderrLog = [i \in Ids |-> NoLog]
    /\ probed = NoResp

\* ------------------------------------------------------- shared helpers
\* The command returns Ok(()) or Err(String), or unwinds: its frame is gone
\* (cmd and saw are kept as the record of the call).
Results == {"Ok", "Err", "Panic"}
InFlight(t) == pc[t] \notin Results \cup {"new"}

\* the frontend invokes command cmd as call t, while fewer than k calls
\* are in flight
Invoked(t, k, cmd, data, cols, rows, first) ==
    /\ pc[t] = "new"
    /\ IF t = 1 THEN TRUE ELSE pc[t - 1] # "new"
    /\ Cardinality({u \in Calls : InFlight(u)}) < k
    /\ loc' = [loc EXCEPT ![t] = [NoLoc EXCEPT !.cmd = cmd, !.data = data,
                                               !.cols = cols, !.rows = rows]]
    /\ pc' = [pc EXCEPT ![t] = first]
    /\ UNCHANGED <<execVars, podsVars, hwVars, relay>>
    /\ UNCHANGED proxyVars

Return(t, res) ==
    /\ pc' = [pc EXCEPT ![t] = res]
    /\ loc' = [loc EXCEPT ![t] = [NoLoc EXCEPT !.cmd = loc[t].cmd, !.saw = loc[t].saw]]
ReturnSaw(t, res, c) ==
    /\ pc' = [pc EXCEPT ![t] = res]
    /\ loc' = [loc EXCEPT ![t] = [NoLoc EXCEPT !.cmd = loc[t].cmd, !.saw = c]]

Goto(t, label) == pc' = [pc EXCEPT ![t] = label]

\* Mutex::lock by call t: the mutex must be free
Locked(l, t) == [l EXCEPT !.holder = t]
\* MutexGuard dropped normally / while unwinding
Unlocked(l) == [l EXCEPT !.holder = 0]
Poisoned(l) == [holder |-> 0, poisoned |-> TRUE]

\* portable_pty::Child::kill on child c by command cmd.  "ok": the process
\* is gone; "err": the call failed (the process had already exited, or the
\* signal could not be sent); "panic": the call unwound.
KillOutcomes == {"ok", "err", "panic"}
Killed(c, cmd, outcome) ==
    [proc EXCEPT ![c] = [@ EXCEPT !.kills = @ + 1,
                                  !.by = @ \cup {cmd},
                                  !.st = IF outcome = "ok" THEN "exited" ELSE @]]

\* SlavePty::spawn_command succeeded: child c runs
KilledSoFar == {i \in Ids : proc[i].kills > 0}
Spawned(c) == [proc EXCEPT ![c] = [st |-> "running", kills |-> 0, by |-> {},
                                   killedBefore |-> KilledSoFar]]

\* ------------------------------------------------ exec.rs start_pty_exec
\* start_pty_exec(app, name, namespace, source_file, context_name, cols, rows, state)
InvokeStart(t, k) ==
    \E a \in StartArg : Invoked(t, k, "start_pty_exec", <<>>, a[1], a[2], "start_prepare")

\* lines 47-95: openpty, spawn_command, try_clone_reader, take_writer.  Each
\* can fail and return Err; a failure after spawn_command drops the child
\* (and the pair) without any call of kill.
PrepareOutcomes == {"openpty_failed", "spawn_failed", "clone_reader_failed",
                    "take_writer_failed", "ok"}
\* a variant that stores the session under construction in the slot and
\* leaves it there when openpty or spawn_command fails
StartPrepare_RegistersFirst(t) ==
    /\ pc[t] = "start_prepare"
    /\ sessionLock.holder = 0
    /\ \E o \in PrepareOutcomes :
         IF o \in {"openpty_failed", "spawn_failed"}
         THEN /\ Return(t, "Err")
              /\ ptySession' = PtySessionInner(t, t, t)
              /\ UNCHANGED <<hwVars, sessionLock>>
         ELSE /\ proc' = Spawned(t)
              /\ geom' = [geom EXCEPT ![t] =
                            <<UnwrapOr(loc[t].cols, 80), UnwrapOr(loc[t].rows, 24)>>]
              /\ UNCHANGED execVars
              /\ IF o = "ok"
                 THEN /\ Goto(t, "start_lock")
                      /\ loc' = [loc EXCEPT ![t].cols = None, ![t].rows = None]
                      /\ UNCHANGED <<dropped, writer>>
                 ELSE /\ Return(t, "Err")
                      /\ dropped' = dropped \cup {t}
                      /\ UNCHANGED writer
    /\ UNCHANGED <<podsVars, relay>>
    /\ UNCHANGED proxyVars

\* a variant that clears the slot and kills the session it held when
\* openpty or spawn_command fails
StartPrepare_EvictsOnFailure(t) ==
    /\ pc[t] = "start_prepare"
    /\ \E o \in PrepareOutcomes :
         IF o \in {"openpty_failed", "spawn_failed"}
         THEN /\ Return(t, "Err")
              /\ ptySession' = NoSession
              /\ proc' = IF ptySession = NoSession THEN proc
                         ELSE Killed(ptySession.child, loc[t].cmd, "ok")
              /\ UNCHANGED <<sessionLock, writer, geom, dropped>>
         ELSE /\ proc' = Spawned(t)
              /\ geom' = [geom EXCEPT ![t] =
                            <<UnwrapOr(loc[t].cols, 80), UnwrapOr(loc[t].rows, 24)>>]
              /\ UNCHANGED execVars
              /\ IF o = "ok"
                 THEN /\ Goto(t, "start_lock")
                      /\ loc' = [loc EXCEPT ![t].cols = None, ![t].rows = None]
                      /\ UNCHANGED <<dropped, writer>>
                 ELSE /\ Return(t, "Err")
                      /\ dropped' = dropped \cup {t}
                      /\ UNCHANGED writer
    /\ UNCHANGED <<podsVars, relay>>
    /\ UNCHANGED proxyVars

StartPrepare(t) ==
    /\ pc[t] = "start_prepare"
    /\ \E o \in PrepareOutcomes :
         IF o \in {"openpty_failed", "spawn_failed"}
         THEN /\ Return(t, "Err")
              /\ UNCHANGED hwVars
         ELSE /\ proc' = Spawned(t)
              /\ geom' = [geom EXCEPT ![t] =
                            <<UnwrapOr(loc[t].cols, 80), UnwrapOr(loc[t].rows, 24)>>]
              /\ IF o = "ok"
                 THEN /\ Goto(t, "start_lock")
                      /\ loc' = [loc EXCEPT ![t].cols = None, ![t].rows = None]
                      /\ UNCHANGED <<dropped, writer>>
                 ELSE /\ Return(t, "Err")
                      /\ dropped' = dropped \cup {t}
                      /\ UNCHANGED writer
    /\ UNCHANGED <<execVars, podsVars, relay>>
    /\ UNCHANGED proxyVars

\* line 99: state.0.lock().map_err(..)?  A poisoned mutex returns Err: the
\* new writer, master and child are dropped, the child not killed.
StartLock(t) ==
    /\ pc[t] = "start_lock"
    /\ sessionLock.holder = 0
    /\ IF sessionLock.poisoned
       THEN /\ Return(t, "Err")
            /\ dropped' = dropped \cup {t}
            /\ UNCHANGED sessionLock
       ELSE /\ sessionLock' = Locked(sessionLock, t)
            /\ Goto(t, "start_take")
            /\ UNCHANGED <<loc, dropped>>
    /\ UNCHANGED <<ptySession, podsVars, proc, writer, geom, relay>>
    /\ UNCHANGED proxyVars

\* a variant that takes the previous session and drops it without kill
StartTake_NoKill(t) ==
    /\ pc[t] = "start_take"
    /\ sessionLock.holder = t
    /\ ptySession' = NoSession
    /\ dropped' = IF ptySession = NoSession THEN dropped ELSE dropped \cup {ptySession.child}
    /\ loc' = [loc EXCEPT ![t].saw = ptySession.child]
    /\ Goto(t, "start_install")
    /\ UNCHANGED <<sessionLock, podsVars, proc, writer, geom, relay>>
    /\ UNCHANGED proxyVars

\* a variant that drops the guard after the kill, as exec_into_pod does
\* between its two critical sections
StartTake_TwoSections(t) ==
    /\ pc[t] = "start_take"
    /\ sessionLock.holder = t
    /\ ptySession' = NoSession
    /\ sessionLock' = Unlocked(sessionLock)
    /\ IF ptySession = NoSession
       THEN /\ Goto(t, "start_install")
            /\ UNCHANGED <<loc, hwVars>>
       ELSE /\ proc' = Killed(ptySession.child, loc[t].cmd, "ok")
            /\ dropped' = dropped \cup {ptySession.child}
            /\ loc' = [loc EXCEPT ![t].saw = ptySession.child]
            /\ Goto(t, "start_install")
            /\ UNCHANGED <<writer, geom>>
    /\ UNCHANGED <<podsVars, relay>>
    /\ UNCHANGED proxyVars

\* lines 100-102: if let Some(mut prev) = guard.take() { let _ = prev.child.kill(); }
\* prev is dropped at the end of the block.
StartTake(t) ==
    /\ pc[t] = "start_take"
    /\ sessionLock.holder = t
    /\ ptySession' = NoSession
    /\ IF ptySession = NoSession
       THEN /\ Goto(t, "start_install")
            /\ UNCHANGED <<loc, sessionLock, hwVars>>
       ELSE \E o \in KillOutcomes :
              /\ proc' = Killed(ptySession.child, loc[t].cmd, o)
              /\ IF o = "panic"
                 THEN \* unwinding drops prev, the new handles and the guard
                      /\ dropped' = dropped \cup {ptySession.child, t}
                      /\ sessionLock' = Poisoned(sessionLock)
                      /\ ReturnSaw(t, "Panic", ptySession.child)
                 ELSE /\ dropped' = dropped \cup {ptySession.child}
                      /\ loc' = [loc EXCEPT ![t].saw = ptySession.child]
                      /\ Goto(t, "start_install")
                      /\ UNCHANGED sessionLock
              /\ UNCHANGED <<writer, geom>>
    /\ UNCHANGED <<podsVars, relay>>
    /\ UNCHANGED proxyVars

\* lines 103-107: *guard = Some(PtySessionInner { writer, master: pair.master, child })
StartInstall(t) ==
    /\ pc[t] = "start_install"
    /\ sessionLock.holder = t
    /\ ptySession' = PtySessionInner(t, t, t)
    /\ Goto(t, "start_unlock")
    /\ UNCHANGED <<loc, sessionLock, podsVars, hwVars, relay>>
    /\ UNCHANGED proxyVars

\* a variant in which the guard is not dropped at the end of the block
\* but moved into the reader thread's closure (holder -t: the relay of t)
StartUnlock_GuardMovedToRelay(t) ==
    /\ pc[t] = "start_unlock"
    /\ sessionLock.holder = t
    /\ sessionLock' = [sessionLock EXCEPT !.holder = 0 - t]
    /\ Goto(t, "start_relay")
    /\ UNCHANGED <<loc, ptySession, podsVars, hwVars, relay>>
    /\ UNCHANGED proxyVars

\* line 108: the block ends, the guard is dropped
StartUnlock(t) ==
    /\ pc[t] = "start_unlock"
    /\ sessionLock.holder = t
    /\ sessionLock' = Unlocked(sessionLock)
    /\ Goto(t, "start_relay")
    /\ UNCHANGED <<loc, ptySession, podsVars, hwVars, relay>>
    /\ UNCHANGED proxyVars

\* lines 111-142: std::thread::spawn of the reader loop, then Ok(())
Reading(kind) == [NoRelay EXCEPT !.st = "read", !.kind = kind]
StartRelay(t) ==
    /\ pc[t] = "start_relay"
    /\ relay' = [relay EXCEPT ![t] = Reading("pty")]
    /\ Return(t, "Ok")
    /\ UNCHANGED <<execVars, podsVars, hwVars>>
    /\ UNCHANGED proxyVars

\* ----------------------------------------------- exec.rs send_exec_input
\* send_exec_input(data, state)
InvokeSend(t, k) ==
    \E d \in InputData : Invoked(t, k, "send_exec_input", d, None, None, "send_lock")

\* line 152: state.0.lock().map_err(..)?
SendLock(t) ==
    /\ pc[t] = "send_lock"
    /\ sessionLock.holder = 0
    /\ IF sessionLock.poisoned
       THEN /\ Return(t, "Err")
            /\ UNCHANGED sessionLock
       ELSE /\ sessionLock' = Locked(sessionLock, t)
            /\ Goto(t, "send_write")
            /\ UNCHANGED loc
    /\ UNCHANGED <<ptySession, podsVars, hwVars, relay>>
    /\ UNCHANGED proxyVars

\* Write::write_all / Write::flush / MasterPty::resize under the guard
IoOutcomes == {"ok", "err", "panic"}
WriteAll(w, data) == [writer EXCEPT ![w].written = @ \o data]
Flush(w) == [writer EXCEPT ![w].flushed = Len(writer[w].written)]

\* a variant that reports a missing session as an error
SendWrite_ErrWhenEmpty(t) ==
    /\ pc[t] = "send_write"
    /\ sessionLock.holder = t
    /\ IF ptySession = NoSession
       THEN /\ Return(t, "Err")
            /\ sessionLock' = Unlocked(sessionLock)
            /\ UNCHANGED writer
       ELSE /\ writer' = WriteAll(ptySession.writer, loc[t].data)
            /\ Goto(t, "send_flush")
            /\ loc' = [loc EXCEPT ![t].saw = ptySession.child, ![t].data = <<>>]
            /\ UNCHANGED sessionLock
    /\ UNCHANGED <<ptySession, podsVars, proc, geom, dropped, relay>>
    /\ UNCHANGED proxyVars

\* lines 153-157: if let Some(ref mut session) = *guard { session.writer.write_all(..)? }
\* with no session: line 163, Ok(()), the guard dropped on return
SendWrite(t) ==
    /\ pc[t] = "send_write"
    /\ sessionLock.holder = t
    /\ IF ptySession = NoSession
       THEN /\ Return(t, "Ok")
            /\ sessionLock' = Unlocked(sessionLock)
            /\ UNCHANGED writer
       ELSE \E o \in IoOutcomes :
              CASE o = "ok" ->
                     /\ writer' = WriteAll(ptySession.writer, loc[t].data)
                     /\ Goto(t, "send_flush")
                     /\ loc' = [loc EXCEPT ![t].saw = ptySession.child, ![t].data = <<>>]
                     /\ UNCHANGED sessionLock
                [] o = "err" ->
                     /\ ReturnSaw(t, "Err", ptySession.child)
                     /\ sessionLock' = Unlocked(sessionLock)
                     /\ UNCHANGED writer
                [] o = "panic" ->
                     /\ ReturnSaw(t, "Panic", ptySession.child)
                     /\ sessionLock' = Poisoned(sessionLock)
                     /\ UNCHANGED writer
    /\ UNCHANGED <<ptySession, podsVars, proc, geom, dropped, relay>>
    /\ UNCHANGED proxyVars

\* a variant that returns Ok without flushing what was written
SendFlush_NoFlush(t) ==
    /\ pc[t] = "send_flush"
    /\ sessionLock.holder = t
    /\ Return(t, "Ok")
    /\ sessionLock' = Unlocked(sessionLock)
    /\ UNCHANGED <<ptySession, podsVars, hwVars, relay>>
    /\ UNCHANGED proxyVars

\* lines 158-163: session.writer.flush()?; Ok(())
SendFlush(t) ==
    /\ pc[t] = "send_flush"
    /\ sessionLock.holder = t
    /\ \E o \in IoOutcomes :
         CASE o = "ok" ->
                /\ writer' = Flush(ptySession.writer)
                /\ Return(t, "Ok")
                /\ sessionLock' = Unlocked(sessionLock)
           [] o = "err" ->
                /\ Return(t, "Err")
                /\ sessionLock' = Unlocked(sessionLock)
                /\ UNCHANGED writer
           [] o = "panic" ->
                /\ Return(t, "Panic")
                /\ sessionLock' = Poisoned(sessionLock)
                /\ UNCHANGED writer
    /\ UNCHANGED <<ptySession, podsVars, proc, geom, dropped, relay>>
    /\ UNCHANGED proxyVars

\* ----------------------------------------------------- exec.rs resize_pty
\* resize_pty(cols, rows, state)
InvokeResize(t, k) ==
    \E a \in ResizeArg : Invoked(t, k, "resize_pty", <<>>, Some(a[1]), Some(a[2]), "resize_lock")

\* line 174
ResizeLock(t) ==
    /\ pc[t] = "resize_lock"
    /\ sessionLock.holder = 0
    /\ IF sessionLock.poisoned
       THEN /\ Return(t, "Err")
            /\ UNCHANGED sessionLock
       ELSE /\ sessionLock' = Locked(sessionLock, t)
            /\ Goto(t, "resize_do")
            /\ UNCHANGED loc
    /\ UNCHANGED <<ptySession, podsVars, hwVars, relay>>
    /\ UNCHANGED proxyVars

\* a variant that passes the two numbers in the other order
Resize_Swapped(m, cols, rows) == [geom EXCEPT ![m] = <<rows, cols>>]
\* lines 177-183: master.resize(PtySize { rows, cols, .. })
Resize(m, cols, rows) == [geom EXCEPT ![m] = <<cols, rows>>]

\* lines 175-186: if let Some(ref session) = *guard { session.master.resize(..)? } Ok(())
ResizeDo(t) ==
    /\ pc[t] = "resize_do"
    /\ sessionLock.holder = t
    /\ IF ptySession = NoSession
       THEN /\ Return(t, "Ok")
            /\ sessionLock' = Unlocked(sessionLock)
            /\ UNCHANGED geom
       ELSE \E o \in IoOutcomes :
              CASE o = "ok" ->
                     /\ geom' = Resize(ptySession.master, loc[t].cols[1], loc[t].rows[1])
                     /\ ReturnSaw(t, "Ok", ptySession.child)
                     /\ sessionLock' = Unlocked(sessionLock)
                [] o = "err" ->
                     /\ ReturnSaw(t, "Err", ptySession.child)
                     /\ sessionLock' = Unlocked(sessionLock)
                     /\ UNCHANGED geom
                [] o = "panic" ->
                     /\ ReturnSaw(t, "Panic", ptySession.child)
                     /\ sessionLock' = Poisoned(sessionLock)
                     /\ UNCHANGED geom
    /\ UNCHANGED <<ptySession, podsVars, proc, writer, dropped, relay>>
    /\ UNCHANGED proxyVars

\* -------------------------------------------------- exec.rs stop_pty_exec
\* stop_pty_exec(state)
InvokeStop(t, k) == Invoked(t, k, "stop_pty_exec", <<>>, None, None, "stop_lock")

\* a variant that recovers the guard of a poisoned mutex
\* (lock().unwrap_or_else(|e| e.into_inner())) and goes on
StopLock_IgnoresPoison(t) ==
    /\ pc[t] = "stop_lock"
    /\ sessionLock.holder = 0
    /\ sessionLock' = Locked(sessionLock, t)
    /\ Goto(t, "stop_take")
    /\ UNCHANGED loc
    /\ UNCHANGED <<ptySession, podsVars, hwVars, relay>>
    /\ UNCHANGED proxyVars

\* line 193
StopLock(t) ==
    /\ pc[t] = "stop_lock"
    /\ sessionLock.holder = 0
    /\ IF sessionLock.poisoned
       THEN /\ Return(t, "Err")
            /\ UNCHANGED sessionLock
       ELSE /\ sessionLock' = Locked(sessionLock, t)
            /\ Goto(t, "stop_take")
            /\ UNCHANGED loc
    /\ UNCHANGED <<ptySession, podsVars, hwVars, relay>>
    /\ UNCHANGED proxyVars

\* a variant that only clears the slot (*guard = None): no call of kill
StopTake_DropOnly(t) ==
    /\ pc[t] = "stop_take"
    /\ sessionLock.holder = t
    /\ ptySession' = NoSession
    /\ dropped' = IF ptySession = NoSession THEN dropped ELSE dropped \cup {ptySession.child}
    /\ ReturnSaw(t, "Ok", ptySession.child)
    /\ sessionLock' = Unlocked(sessionLock)
    /\ UNCHANGED <<podsVars, proc, writer, geom, relay>>
    /\ UNCHANGED proxyVars

\* a variant that kills the session in place (as_mut) and leaves it in the slot
StopTake_KillInPlace(t) ==
    /\ pc[t] = "stop_take"
    /\ sessionLock.holder = t
    /\ IF ptySession = NoSession
       THEN /\ Return(t, "Ok")
            /\ sessionLock' = Unlocked(sessionLock)
            /\ UNCHANGED hwVars
       ELSE \E o \in KillOutcomes :
              /\ proc' = Killed(ptySession.child, loc[t].cmd, o)
              /\ IF o = "panic"
                 THEN /\ ReturnSaw(t, "Panic", ptySession.child)
                      /\ sessionLock' = Poisoned(sessionLock)
                 ELSE /\ ReturnSaw(t, "Ok", ptySession.child)
                      /\ sessionLock' = Unlocked(sessionLock)
              /\ UNCHANGED <<writer, geom, dropped>>
    /\ UNCHANGED <<ptySession, podsVars, relay>>
    /\ UNCHANGED proxyVars

\* a variant that propagates the error of kill (session.child.kill()?)
StopTake_KillErrPropagates(t) ==
    /\ pc[t] = "stop_take"
    /\ sessionLock.holder = t
    /\ ptySession' = NoSession
    /\ IF ptySession = NoSession
       THEN /\ Return(t, "Ok")
            /\ sessionLock' = Unlocked(sessionLock)
            /\ UNCHANGED hwVars
       ELSE \E o \in KillOutcomes :
              /\ proc' = Killed(ptySession.child, loc[t].cmd, o)
              /\ dropped' = dropped \cup {ptySession.child}
              /\ IF o = "panic"
                 THEN /\ ReturnSaw(t, "Panic", ptySession.child)
                      /\ sessionLock' = Poisoned(sessionLock)
                 ELSE /\ ReturnSaw(t, IF o = "ok" THEN "Ok" ELSE "Err", ptySession.child)
                      /\ sessionLock' = Unlocked(sessionLock)
              /\ UNCHANGED <<writer, geom>>
    /\ UNCHANGED <<podsVars, relay>>
    /\ UNCHANGED proxyVars

\* lines 194-197: if let Some(mut session) = guard.take() { let _ = session.child.kill(); } Ok(())
StopTake(t) ==
    /\ pc[t] = "stop_take"
    /\ sessionLock.holder = t
    /\ ptySession' = NoSession
    /\ IF ptySession = NoSession
       THEN /\ Return(t, "Ok")
            /\ sessionLock' = Unlocked(sessionLock)
            /\ UNCHANGED hwVars
       ELSE \E o \in KillOutcomes :
              /\ proc' = Killed(ptySession.child, loc[t].cmd, o)
              /\ dropped' = dropped \cup {ptySession.child}
              /\ IF o = "panic"
                 THEN /\ ReturnSaw(t, "Panic", ptySession.child)
                      /\ sessionLock' = Poisoned(sessionLock)
                 ELSE /\ ReturnSaw(t, "Ok", ptySession.child)
                      /\ sessionLock' = Unlocked(sessionLock)
              /\ UNCHANGED <<writer, geom>>
    /\ UNCHANGED <<podsVars, relay>>
    /\ UNCHANGED proxyVars

\* ------------------------------------------------- pods.rs exec_into_pod
\* exec_into_pod(app, name, namespace, source_file, context_name, state)
InvokeExec(t, k) == Invoked(t, k, "exec_into_pod", <<>>, None, None, "exec_clear_lock")

\* line 228: state.0.lock().map_err(..)?
ExecClearLock(t) ==
    /\ pc[t] = "exec_clear_lock"
    /\ stateLock.holder = 0
    /\ IF stateLock.poisoned
       THEN /\ Return(t, "Err")
            /\ UNCHANGED stateLock
       ELSE /\ stateLock' = Locked(stateLock, t)
            /\ Goto(t, "exec_clear")
            /\ UNCHANGED loc
    /\ UNCHANGED <<ptyState, execVars, hwVars, relay>>
    /\ UNCHANGED proxyVars

\* lines 229-230: *guard = None; the guard is dropped.  The previous
\* PtySession is dropped: no call of kill.
ExecClear(t) ==
    /\ pc[t] = "exec_clear"
    /\ stateLock.holder = t
    /\ ptyState' = NoPodSession
    /\ dropped' = IF ptyState = NoPodSession THEN dropped ELSE dropped \cup {ptyState.child}
    /\ loc' = [loc EXCEPT ![t].saw = ptyState.child]
    /\ stateLock' = Unlocked(stateLock)
    /\ Goto(t, "exec_prepare")
    /\ UNCHANGED <<execVars, proc, writer, geom, relay>>
    /\ UNCHANGED proxyVars

\* lines 238-268: spawn_blocking { openpty(24 x 80), spawn_command,
\* try_clone_reader, take_writer }.await??; the pair (and its master) is
\* dropped when the closure ends.
ExecPrepare(t) ==
    /\ pc[t] = "exec_prepare"
    /\ \E o \in PrepareOutcomes :
         IF o \in {"openpty_failed", "spawn_failed"}
         THEN /\ Return(t, "Err")
              /\ UNCHANGED hwVars
         ELSE /\ proc' = Spawned(t)
              /\ geom' = [geom EXCEPT ![t] = <<80, 24>>]
              /\ IF o = "ok"
                 THEN /\ Goto(t, "exec_install_lock")
                      /\ UNCHANGED <<loc, dropped, writer>>
                 ELSE /\ Return(t, "Err")
                      /\ dropped' = dropped \cup {t}
                      /\ UNCHANGED writer
    /\ UNCHANGED <<execVars, podsVars, relay>>
    /\ UNCHANGED proxyVars

\* line 272: state.0.lock().map_err(..)?
ExecInstallLock(t) ==
    /\ pc[t] = "exec_install_lock"
    /\ stateLock.holder = 0
    /\ IF stateLock.poisoned
       THEN /\ Return(t, "Err")
            /\ dropped' = dropped \cup {t}
            /\ UNCHANGED stateLock
       ELSE /\ stateLock' = Locked(stateLock, t)
            /\ Goto(t, "exec_install")
            /\ UNCHANGED <<loc, dropped>>
    /\ UNCHANGED <<ptyState, execVars, proc, writer, geom, relay>>
    /\ UNCHANGED proxyVars

\* lines 273-274: *guard = Some(crate::PtySession { writer, child }); the
\* guard is dropped.  A session another call installed meanwhile is dropped.
ExecInstall(t) ==
    /\ pc[t] = "exec_install"
    /\ stateLock.holder = t
    /\ ptyState' = PtySession(t, t)
    /\ dropped' = IF ptyState = NoPodSession THEN dropped ELSE dropped \cup {ptyState.child}
    /\ stateLock' = Unlocked(stateLock)
    /\ Goto(t, "exec_relay")
    /\ UNCHANGED <<loc, execVars, proc, writer, geom, relay>>
    /\ UNCHANGED proxyVars

\* lines 279-304: tokio::task::spawn_blocking of the reader loop, then Ok(())
ExecRelay(t) ==
    /\ pc[t] = "exec_relay"
    /\ relay' = [relay EXCEPT ![t] = Reading("exec")]
    /\ Return(t, "Ok")
    /\ UNCHANGED <<execVars, podsVars, hwVars>>
    /\ UNCHANGED proxyVars

\* ----------------------------------------------- pods.rs send_exec_input
\* send_exec_input(input, state)
InvokePodSend(t, k) ==
    \E d \in InputData : Invoked(t, k, "pods::send_exec_input", d, None, None, "psend_lock")

\* line 314
PodSendLock(t) ==
    /\ pc[t] = "psend_lock"
    /\ stateLock.holder = 0
    /\ IF stateLock.poisoned
       THEN /\ Return(t, "Err")
            /\ UNCHANGED stateLock
       ELSE /\ stateLock' = Locked(stateLock, t)
            /\ Goto(t, "psend_write")
            /\ UNCHANGED loc
    /\ UNCHANGED <<ptyState, execVars, hwVars, relay>>
    /\ UNCHANGED proxyVars

\* lines 315-318
PodSendWrite(t) ==
    /\ pc[t] = "psend_write"
    /\ stateLock.holder = t
    /\ IF ptyState = NoPodSession
       THEN /\ Return(t, "Ok")
            /\ stateLock' = Unlocked(stateLock)
            /\ UNCHANGED writer
       ELSE \E o \in IoOutcomes :
              CASE o = "ok" ->
                     /\ writer' = WriteAll(ptyState.writer, loc[t].data)
                     /\ Goto(t, "psend_flush")
                     /\ loc' = [loc EXCEPT ![t].saw = ptyState.child, ![t].data = <<>>]
                     /\ UNCHANGED stateLock
                [] o = "err" ->
                     /\ ReturnSaw(t, "Err", ptyState.child)
                     /\ stateLock' = Unlocked(stateLock)
                     /\ UNCHANGED writer
                [] o = "panic" ->
                     /\ ReturnSaw(t, "Panic", ptyState.child)
                     /\ stateLock' = Poisoned(stateLock)
                     /\ UNCHANGED writer
    /\ UNCHANGED <<ptyState, execVars, proc, geom, dropped, relay>>
    /\ UNCHANGED proxyVars

\* lines 319-323
PodSendFlush(t) ==
    /\ pc[t] = "psend_flush"
    /\ stateLock.holder = t
    /\ \E o \in IoOutcomes :
         CASE o = "ok" ->
                /\ writer' = Flush(ptyState.writer)
                /\ Return(t, "Ok")
                /\ stateLock' = Unlocked(stateLock)
           [] o = "err" ->
                /\ Return(t, "Err")
                /\ stateLock' = Unlocked(stateLock)
                /\ UNCHANGED writer
           [] o = "panic" ->
                /\ Return(t, "Panic")
                /\ stateLock' = Poisoned(stateLock)
                /\ UNCHANGED writer
    /\ UNCHANGED <<ptyState, execVars, proc, geom, dropped, relay>>
    /\ UNCHANGED proxyVars

\* ------------------------------------------------------ the output relay
\* exec.rs lines 112-140 (events pty-output, pty-done) and pods.rs lines
\* 280-301 (events exec-output, exec-done): the same loop.
OutputEvent(kind) == IF kind = "pty" THEN "pty-output" ELSE "exec-output"
DoneEvent(kind) == IF kind = "pty" THEN "pty-done" ELSE "exec-done"

Chunk(c) == [tag |-> "chunk", bytes |-> c]
Eof == [tag |-> "eof", bytes |-> <<>>]
ReadErr == [tag |-> "err", bytes |-> <<>>]
ChunksRead(i) == Len(SelectSeq(relay[i].reads, LAMBDA r : r.tag = "chunk"))

\* what reader.read(&mut buf) can return now: n > 0 bytes, or, once the
\* child is gone, Ok(0) or Err
ReadResults(i) ==
    (IF ChunksRead(i) < MaxReads THEN {Chunk(c) : c \in AllChunks} ELSE {})
    \cup (IF proc[i].st = "exited" THEN {Eof, ReadErr} ELSE {})

\* a variant that keeps reading after Ok(0) (continue instead of break)
AfterRead_ContinueOnEof(r) == IF r.tag = "chunk" THEN "emit" ELSE IF r.tag = "eof" THEN "read" ELSE "finish"
\* match reader.read(&mut buf): Ok(0) => break, Ok(n) => emit, Err(e) => break
AfterRead(r) == IF r.tag = "chunk" THEN "emit" ELSE "finish"
RelayRead(i) ==
    /\ relay[i].st = "read"
    /\ \E r \in ReadResults(i) :
         relay' = [relay EXCEPT ![i] = [@ EXCEPT !.st = AfterRead(r),
                                                 !.buf = r.bytes,
                                                 !.reads = Append(@, r)]]
    /\ UNCHANGED <<pc, loc, execVars, podsVars, hwVars>>
    /\ UNCHANGED proxyVars

\* the same read for a session that has no output left: it blocks until
\* the child is gone and then returns Ok(0) or Err
RelayReadEnd(i) ==
    /\ relay[i].st = "read"
    /\ \E r \in ReadResults(i) \cap {Eof, ReadErr} :
         relay' = [relay EXCEPT ![i] = [@ EXCEPT !.st = AfterRead(r),
                                                 !.buf = r.bytes,
                                                 !.reads = Append(@, r)]]
    /\ UNCHANGED <<pc, loc, execVars, podsVars, hwVars>>
    /\ UNCHANGED proxyVars

\* AppHandle::emit: the event is published (TRUE) or the call fails
EmitOutcomes == {TRUE, FALSE}
Emitted(i, name, data, ok) == Append(relay[i].emits, [name |-> name, data |-> data, ok |-> ok])

\* let data = String::from_utf8_lossy(&buf[..n]).to_string();
\* if app_clone.emit("pty-output", data).is_err() { break; }
\* a variant that ignores the result of emit (let _ = app_clone.emit(..))
AfterEmit_IgnoreError(ok) == "read"
AfterEmit(ok) == IF ok THEN "read" ELSE "finish"
RelayEmit(i) ==
    /\ relay[i].st = "emit"
    /\ \E ok \in EmitOutcomes :
         relay' = [relay EXCEPT ![i] =
                     [@ EXCEPT !.st = AfterEmit(ok),
                               !.buf = <<>>,
                               !.emits = Emitted(i, OutputEvent(relay[i].kind),
                                                 FromUtf8Lossy(relay[i].buf), ok)]]
    /\ UNCHANGED <<pc, loc, execVars, podsVars, hwVars>>
    /\ UNCHANGED proxyVars

\* a variant of the end of the thread that makes no final emit
RelayDone_NoEmit(i) ==
    /\ relay[i].st = "finish"
    /\ relay' = [relay EXCEPT ![i].st = "done"]
    /\ UNCHANGED <<pc, loc, execVars, podsVars, hwVars>>
    /\ UNCHANGED proxyVars

\* after the loop: let _ = app_clone.emit("pty-done", ());
RelayDone(i) ==
    /\ relay[i].st = "finish"
    /\ \E ok \in EmitOutcomes :
         relay' = [relay EXCEPT ![i] =
                     [@ EXCEPT !.st = "done",
                               !.emits = Emitted(i, DoneEvent(relay[i].kind), <<>>, ok)]]
    /\ UNCHANGED <<pc, loc, execVars, podsVars, hwVars>>
    /\ UNCHANGED proxyVars

\* the environment: the shell of session i exits on its own
ChildExit(i) ==
    /\ proc[i].st = "running"
    /\ proc' = [proc EXCEPT ![i].st = "exited"]
    /\ UNCHANGED <<pc, loc, execVars, podsVars, writer, geom, dropped, relay>>
    /\ UNCHANGED proxyVars

\* ------------------------------------------ proxy.rs start_kubectl_proxy
\* the probes of the health-check loop: for attempt in 1..=10u32
MaxAttempts == 10
\* stderr lines the drain thread reads from one process, and their length
MaxLines == 3
MaxLineLen == 1

\* line 223: sleep(Duration::from_millis(500)); line 218: the client's
\* .timeout(Duration::from_millis(400)); line 251: "(5 s)"
SleepMs == 500
TimeoutMs == 400
BudgetMs == 5000
\* a probe that gets no answer: send() returns the timeout error after 400 ms
TimedOut == [SendError EXCEPT !.ms = TimeoutMs]
\* a quick answer, ready or not, or none
TimedResults == {Response(200), Response(404), TimedOut}

\* statuses a probe's response can carry
Statuses == {199, 200, 299, 300, 403, 404}
ProbeResults == {Response(st) : st \in Statuses} \cup {SendError}
\* one result of each kind, for the runs in which calls overlap
ReadyOrNot == {Response(200), SendError}
\* the characters of a stderr line: ' ' and 'E'
LineChars == {32, 69}
StderrLines == SeqsUpTo(LineChars, MaxLineLen)

\* std::process::Child::kill returns Ok or Err
ProxyKillOutcomes == {"ok", "err"}

\* the command returns Err(String)
ReturnErr(t, kind, detail) ==
    /\ pc' = [pc EXCEPT ![t] = "Err"]
    /\ loc' = [loc EXCEPT ![t] = [NoLoc EXCEPT !.cmd = loc[t].cmd, !.saw = loc[t].saw,
                                               !.err = kind, !.detail = detail]]

\* start_kubectl_proxy(context, kubeconfig_file, state); lines 136-165
\* build the argument list and the empty stderr_log
InvokeProxyStart(t, k) ==
    Invoked(t, k, "start_kubectl_proxy", <<>>, None, None, "proxy_lock")

\* line 169: state.0.lock().map_err(..)?
ProxyLock(t) ==
    /\ pc[t] = "proxy_lock"
    /\ proxyLock.holder = 0
    /\ IF proxyLock.poisoned
       THEN /\ ReturnErr(t, "lock", NoDetail)
            /\ UNCHANGED proxyLock
       ELSE /\ proxyLock' = Locked(proxyLock, t)
            /\ Goto(t, "proxy_take")
            /\ UNCHANGED loc
    /\ UNCHANGED <<kubectlProxy, stderrLog, probed, execVars, podsVars, hwVars, relay>>

\* a variant that takes the previous proxy and drops it without kill
ProxyTake_DropOnly(t) ==
    /\ pc[t] = "proxy_take"
    /\ proxyLock.holder = t
    /\ kubectlProxy' = 0
    /\ dropped' = IF kubectlProxy = 0 THEN dropped ELSE dropped \cup {kubectlProxy}
    /\ loc' = [loc EXCEPT ![t].saw = kubectlProxy]
    /\ Goto(t, "proxy_spawn")
    /\ UNCHANGED <<proxyLock, stderrLog, probed, execVars, podsVars, proc, writer, geom, relay>>

\* a variant that drops the guard after the kill and spawns without it
ProxyTake_ReleasesLock(t) ==
    /\ pc[t] = "proxy_take"
    /\ proxyLock.holder = t
    /\ kubectlProxy' = 0
    /\ proxyLock' = Unlocked(proxyLock)
    /\ IF kubectlProxy = 0
       THEN UNCHANGED <<loc, proc, dropped>>
       ELSE \E o \in ProxyKillOutcomes :
              /\ proc' = Killed(kubectlProxy, loc[t].cmd, o)
              /\ dropped' = dropped \cup {kubectlProxy}
              /\ loc' = [loc EXCEPT ![t].saw = kubectlProxy]
    /\ Goto(t, "proxy_spawn")
    /\ UNCHANGED <<stderrLog, probed, execVars, podsVars, writer, geom, relay>>

\* lines 172-175: if let Some(mut child) = guard.take() { let _ = child.kill(); }
ProxyTake(t) ==
    /\ pc[t] = "proxy_take"
    /\ proxyLock.holder = t
    /\ kubectlProxy' = 0
    /\ IF kubectlProxy = 0
       THEN UNCHANGED <<loc, proc, dropped>>
       ELSE \E o \in ProxyKillOutcomes :
              /\ proc' = Killed(kubectlProxy, loc[t].cmd, o)
              /\ dropped' = dropped \cup {kubectlProxy}
              /\ loc' = [loc EXCEPT ![t].saw = kubectlProxy]
    /\ Goto(t, "proxy_spawn")
    /\ UNCHANGED <<proxyLock, stderrLog, probed, execVars, podsVars, writer, geom, relay>>

\* a variant that puts the process it took back into the slot when the
\* spawn fails
ProxySpawn_RestoresPrevious(t) ==
    /\ pc[t] = "proxy_spawn"
    /\ proxyLock.holder = t
    /\ \E ok \in BOOLEAN :
         IF ok
         THEN /\ proc' = Spawned(t)
              /\ Goto(t, "proxy_drain")
              /\ UNCHANGED <<loc, proxyLock, kubectlProxy>>
         ELSE /\ ReturnErr(t, "spawn", NoDetail)
              /\ proxyLock' = Unlocked(proxyLock)
              /\ kubectlProxy' = loc[t].saw
              /\ UNCHANGED proc
    /\ UNCHANGED <<stderrLog, probed, execVars, podsVars, writer, geom,
                   dropped, relay>>

\* lines 179-188: Command::new(..).spawn().map_err(..)?; a failure returns
\* Err and drops the guard
ProxySpawn(t) ==
    /\ pc[t] = "proxy_spawn"
    /\ proxyLock.holder = t
    /\ \E ok \in BOOLEAN :
         IF ok
         THEN /\ proc' = Spawned(t)
              /\ Goto(t, "proxy_drain")
              /\ UNCHANGED <<loc, proxyLock>>
         ELSE /\ ReturnErr(t, "spawn", NoDetail)
              /\ proxyLock' = Unlocked(proxyLock)
              /\ UNCHANGED proc
    /\ UNCHANGED <<kubectlProxy, stderrLog, probed, execVars, podsVars, writer, geom,
                   dropped, relay>>

\* lines 191-211: thread::spawn of the stdout and stderr drain threads.
\* thread::spawn panics when the OS cannot create the thread: the call
\* unwinds with the guard held (the mutex is poisoned) and the new Child is
\* dropped, which does not kill the process.
ProxyDrain(t) ==
    /\ pc[t] = "proxy_drain"
    /\ proxyLock.holder = t
    /\ \E ok \in BOOLEAN :
         IF ok
         THEN /\ stderrLog' = [stderrLog EXCEPT ![t].open = TRUE]
              /\ Goto(t, "proxy_install")
              /\ UNCHANGED <<loc, proxyLock, dropped>>
         ELSE /\ Return(t, "Panic")
              /\ proxyLock' = Poisoned(proxyLock)
              /\ dropped' = dropped \cup {t}
              /\ UNCHANGED stderrLog
    /\ UNCHANGED <<kubectlProxy, probed, execVars, podsVars, proc, writer, geom, relay>>

\* a variant whose guard lives to the end of the function: the slot is
\* set and the lock is still held when the health-check loop starts
ProxyInstall_KeepsGuard(t) ==
    /\ pc[t] = "proxy_install"
    /\ proxyLock.holder = t
    /\ kubectlProxy' = t
    /\ Goto(t, "proxy_client")
    /\ UNCHANGED <<loc, proxyLock, stderrLog, probed, execVars, podsVars, hwVars, relay>>

\* lines 213-214: *guard = Some(child); the guard is dropped
ProxyInstall(t) ==
    /\ pc[t] = "proxy_install"
    /\ proxyLock.holder = t
    /\ kubectlProxy' = t
    /\ proxyLock' = Unlocked(proxyLock)
    /\ Goto(t, "proxy_client")
    /\ UNCHANGED <<loc, stderrLog, probed, execVars, podsVars, hwVars, relay>>

\* lines 217-220: reqwest::Client::builder().timeout(..).build().map_err(..)?
ProxyClient(t) ==
    /\ pc[t] = "proxy_client"
    /\ \E ok \in BOOLEAN :
         IF ok
         THEN /\ Goto(t, "proxy_probe")
              /\ UNCHANGED loc
         ELSE ReturnErr(t, "client", NoDetail)
    /\ UNCHANGED <<proxyVars, execVars, podsVars, hwVars, relay>>

\* a variant that takes a success status only for ready
ProbeReady_SuccessOnly(r) == r.tag = "resp" /\ 200 <= r.status /\ r.status < 300

\* line 231: resp.status().is_success() || status == 403
IsSuccess(status) == 200 <= status /\ status < 300
ProbeReady(r) == r.tag = "resp" /\ (IsSuccess(r.status) \/ r.status = 403)

\* a variant whose loop ends one attempt early: for attempt in 1..10u32
ProxyProbe_RangeExclusive(t, R) ==
    /\ pc[t] = "proxy_probe"
    /\ loc[t].attempts < MaxAttempts - 1
    /\ \E r \in R :
         /\ probed' = [r EXCEPT !.attempt = loc[t].attempts + 1]
         /\ IF ProbeReady(r)
            THEN Return(t, "Ok")
            ELSE /\ loc' = [loc EXCEPT ![t].attempts = @ + 1,
                                       ![t].elapsed = @ + SleepMs + r.ms]
                 /\ Goto(t, IF loc[t].attempts + 1 = MaxAttempts - 1
                            THEN "proxy_exhausted" ELSE "proxy_probe")
    /\ UNCHANGED <<kubectlProxy, proxyLock, stderrLog, execVars, podsVars, hwVars, relay>>

\* lines 222-240: one turn of the loop: sleep 500 ms, send the probe, match
\* on its result.  Ready: return Ok(()).  Otherwise the next attempt, or the
\* end of the loop after attempt 10.  R: the results the probe can have.
ProxyProbe(t, R) ==
    /\ pc[t] = "proxy_probe"
    /\ loc[t].attempts < MaxAttempts
    /\ \E r \in R :
         /\ probed' = [r EXCEPT !.attempt = loc[t].attempts + 1]
         /\ IF ProbeReady(r)
            THEN Return(t, "Ok")
            ELSE /\ loc' = [loc EXCEPT ![t].attempts = @ + 1,
                                       ![t].elapsed = @ + SleepMs + r.ms]
                 /\ Goto(t, IF loc[t].attempts + 1 = MaxAttempts
                            THEN "proxy_exhausted" ELSE "proxy_probe")
    /\ UNCHANGED <<kubectlProxy, proxyLock, stderrLog, execVars, podsVars, hwVars, relay>>

\* str::trim: leading and trailing whitespace removed
IsWhitespace(c) == c \in {9, 10, 11, 12, 13, 32}
RECURSIVE TrimStart(_)
TrimStart(cs) ==
    IF cs # <<>> /\ IsWhitespace(cs[1]) THEN TrimStart(Tail(cs)) ELSE cs
RECURSIVE TrimEnd(_)
TrimEnd(cs) ==
    IF cs # <<>> /\ IsWhitespace(cs[Len(cs)])
    THEN TrimEnd(SubSeq(cs, 1, Len(cs) - 1)) ELSE cs
Trim(cs) == TrimEnd(TrimStart(cs))

\* lines 244-248: the detail of the error
NoOutputCaptured == [placeholder |-> TRUE, text |-> <<>>]
\* a variant that tests captured.is_empty(), without the trim
Detail_NoTrim(captured) ==
    IF captured = <<>> THEN NoOutputCaptured
    ELSE [placeholder |-> FALSE, text |-> captured]
Detail(captured) ==
    IF Trim(captured) = <<>> THEN NoOutputCaptured
    ELSE [placeholder |-> FALSE, text |-> captured]

\* a variant that takes the process out of the slot and kills it before
\* it returns the error
ProxyExhausted_KillsProcess(t) ==
    /\ pc[t] = "proxy_exhausted"
    /\ proxyLock = FreeLock
    /\ ReturnErr(t, "exhausted", Detail(stderrLog[t].buf))
    /\ kubectlProxy' = 0
    /\ IF kubectlProxy = 0
       THEN UNCHANGED <<proc, dropped>>
       ELSE /\ proc' = Killed(kubectlProxy, loc[t].cmd, "ok")
            /\ dropped' = dropped \cup {kubectlProxy}
    /\ UNCHANGED <<proxyLock, stderrLog, probed, execVars, podsVars, writer, geom, relay>>

\* lines 243-252: captured = stderr_log.lock()..clone(); Err(format!(..{detail}))
ProxyExhausted(t) ==
    /\ pc[t] = "proxy_exhausted"
    /\ ReturnErr(t, "exhausted", Detail(stderrLog[t].buf))
    /\ UNCHANGED <<proxyVars, execVars, podsVars, hwVars, relay>>

\* lines 202-210: the stderr drain thread of the process call i spawned
\* reads one line and appends it and '\n' to the log
LinesRead(i) == Len(SelectSeq(stderrLog[i].buf, LAMBDA c : c = 10))
DrainStderr(i) ==
    /\ stderrLog[i].open
    /\ LinesRead(i) < MaxLines
    /\ \E line \in StderrLines :
         stderrLog' = [stderrLog EXCEPT ![i].buf = @ \o line \o <<10>>]
    /\ UNCHANGED <<pc, loc, kubectlProxy, proxyLock, probed, execVars, podsVars,
                   hwVars, relay>>

\* ------------------------------------------- proxy.rs stop_kubectl_proxy
\* stop_kubectl_proxy(state)
InvokeProxyStop(t, k) ==
    Invoked(t, k, "stop_kubectl_proxy", <<>>, None, None, "pstop_lock")

\* line 259
ProxyStopLock(t) ==
    /\ pc[t] = "pstop_lock"
    /\ proxyLock.holder = 0
    /\ IF proxyLock.poisoned
       THEN /\ ReturnErr(t, "lock", NoDetail)
            /\ UNCHANGED proxyLock
       ELSE /\ proxyLock' = Locked(proxyLock, t)
            /\ Goto(t, "pstop_take")
            /\ UNCHANGED loc
    /\ UNCHANGED <<kubectlProxy, stderrLog, probed, execVars, podsVars, hwVars, relay>>

\* a variant that kills the child in place and clears the slot after it:
\* if let Some(child) = guard.as_mut() { child.kill().map_err(..)?; } *guard = None
ProxyStopTake_KillInPlace(t) ==
    /\ pc[t] = "pstop_take"
    /\ proxyLock.holder = t
    /\ proxyLock' = Unlocked(proxyLock)
    /\ IF kubectlProxy = 0
       THEN /\ Return(t, "Ok")
            /\ UNCHANGED <<proc, dropped, kubectlProxy>>
       ELSE \E o \in ProxyKillOutcomes :
              /\ proc' = Killed(kubectlProxy, loc[t].cmd, o)
              /\ IF o = "ok"
                 THEN /\ ReturnSaw(t, "Ok", kubectlProxy)
                      /\ kubectlProxy' = 0
                      /\ dropped' = dropped \cup {kubectlProxy}
                 ELSE /\ pc' = [pc EXCEPT ![t] = "Err"]
                      /\ loc' = [loc EXCEPT ![t] = [NoLoc EXCEPT !.cmd = loc[t].cmd,
                                                                 !.saw = kubectlProxy,
                                                                 !.err = "kill"]]
                      /\ UNCHANGED <<kubectlProxy, dropped>>
    /\ UNCHANGED <<stderrLog, probed, execVars, podsVars, writer, geom, relay>>

\* a variant that ignores the result of kill, as the other two callers do:
\* if let Some(mut child) = guard.take() { let _ = child.kill(); } Ok(())
ProxyStopTake_IgnoresKillError(t) ==
    /\ pc[t] = "pstop_take"
    /\ proxyLock.holder = t
    /\ kubectlProxy' = 0
    /\ proxyLock' = Unlocked(proxyLock)
    /\ IF kubectlProxy = 0
       THEN /\ Return(t, "Ok")
            /\ UNCHANGED <<proc, dropped>>
       ELSE \E o \in ProxyKillOutcomes :
              /\ proc' = Killed(kubectlProxy, loc[t].cmd, o)
              /\ dropped' = dropped \cup {kubectlProxy}
              /\ ReturnSaw(t, "Ok", kubectlProxy)
    /\ UNCHANGED <<stderrLog, probed, execVars, podsVars, writer, geom, relay>>

\* lines 260-264: if let Some(mut child) = guard.take() { child.kill().map_err(..)?; } Ok(())
ProxyStopTake(t) ==
    /\ pc[t] = "pstop_take"
    /\ proxyLock.holder = t
    /\ kubectlProxy' = 0
    /\ proxyLock' = Unlocked(proxyLock)
    /\ IF kubectlProxy = 0
       THEN /\ Return(t, "Ok")
            /\ UNCHANGED <<proc, dropped>>
       ELSE \E o \in ProxyKillOutcomes :
              /\ proc' = Killed(kubectlProxy, loc[t].cmd, o)
              /\ dropped' = dropped \cup {kubectlProxy}
              /\ IF o = "ok"
                 THEN ReturnSaw(t, "Ok", kubectlProxy)
                 ELSE /\ pc' = [pc EXCEPT ![t] = "Err"]
                      /\ loc' = [loc EXCEPT ![t] = [NoLoc EXCEPT !.cmd = loc[t].cmd,
                                                                 !.saw = kubectlProxy,
                                                                 !.err = "kill"]]
    /\ UNCHANGED <<stderrLog, probed, execVars, podsVars, writer, geom, relay>>

\* ------------------------------------------ lib.rs the RunEvent::Exit handler
InvokeExit(t, k) == Invoked(t, k, "exit", <<>>, None, None, "exit_lock")

\* line 65: if let Ok(mut guard) = arc.lock(); a poisoned mutex is skipped
ExitLock(t) ==
    /\ pc[t] = "exit_lock"
    /\ proxyLock.holder = 0
    /\ IF proxyLock.poisoned
       THEN /\ Return(t, "Ok")
            /\ UNCHANGED proxyLock
       ELSE /\ proxyLock' = Locked(proxyLock, t)
            /\ Goto(t, "exit_take")
            /\ UNCHANGED loc
    /\ UNCHANGED <<kubectlProxy, stderrLog, probed, execVars, podsVars, hwVars, relay>>

\* a variant that takes the child out of the slot and drops it: no kill
ExitTake_DropOnly(t) ==
    /\ pc[t] = "exit_take"
    /\ proxyLock.holder = t
    /\ kubectlProxy' = 0
    /\ proxyLock' = Unlocked(proxyLock)
    /\ ReturnSaw(t, "Ok", kubectlProxy)
    /\ dropped' = IF kubectlProxy = 0 THEN dropped ELSE dropped \cup {kubectlProxy}
    /\ UNCHANGED <<stderrLog, probed, execVars, podsVars, proc, writer, geom, relay>>

\* lines 66-69: if let Some(mut child) = guard.take() { let _ = child.kill(); }
ExitTake(t) ==
    /\ pc[t] = "exit_take"
    /\ proxyLock.holder = t
    /\ kubectlProxy' = 0
    /\ proxyLock' = Unlocked(proxyLock)
    /\ IF kubectlProxy = 0
       THEN /\ Return(t, "Ok")
            /\ UNCHANGED <<proc, dropped>>
       ELSE \E o \in ProxyKillOutcomes :
              /\ proc' = Killed(kubectlProxy, loc[t].cmd, o)
              /\ dropped' = dropped \cup {kubectlProxy}
              /\ ReturnSaw(t, "Ok", kubectlProxy)
    /\ UNCHANGED <<stderrLog, probed, execVars, podsVars, writer, geom, relay>>

\* --------------------------------------------------------- specifications
\* a step of call t, with at most k calls in flight at once
ExecStep(t, k) ==
    \/ InvokeStart(t, k) \/ StartPrepare(t) \/ StartLock(t) \/ StartTake(t)
    \/ StartInstall(t) \/ StartUnlock(t) \/ StartRelay(t)
    \/ InvokeSend(t, k) \/ SendLock(t) \/ SendWrite(t) \/ SendFlush(t)
    \/ InvokeResize(t, k) \/ ResizeLock(t) \/ ResizeDo(t)
    \/ InvokeStop(t, k) \/ StopLock(t) \/ StopTake(t)

PodsStep(t, k) ==
    \/ InvokeExec(t, k) \/ ExecClearLock(t) \/ ExecClear(t) \/ ExecPrepare(t)
    \/ ExecInstallLock(t) \/ ExecInstall(t) \/ ExecRelay(t)
    \/ InvokePodSend(t, k) \/ PodSendLock(t) \/ PodSendWrite(t) \/ PodSendFlush(t)

RelayStep(i) ==
    \/ RelayRead(i) \/ RelayEmit(i) \/ RelayDone(i) \/ ChildExit(i)

\* the commands of exec.rs, run concurrently
Next == \E t \in Calls : ExecStep(t, MaxCalls)
Spec == Init /\ [][Next]_vars

\* the commands of pods.rs, run concurrently
NextPods == \E t \in Calls : PodsStep(t, MaxCalls)
SpecPods == Init /\ [][NextPods]_vars

\* both
NextAll == \E t \in Calls : ExecStep(t, MaxCalls) \/ PodsStep(t, MaxCalls)
SpecAll == Init /\ [][NextAll]_vars

\* both, with at most two calls in flight
NextPairs == \E t \in Calls : ExecStep(t, 2) \/ PodsStep(t, 2)
SpecPairs == Init /\ [][NextPairs]_vars

\* the commands of exec.rs, one after the other: a call is invoked only
\* when the call before it has returned
NextSeq == \E t \in Calls : ExecStep(t, 1)
SpecSeq == Init /\ [][NextSeq]_vars

\* one start command (call 1, of either file) and the reader loop it spawns
StartStep(t) ==
    \/ InvokeStart(t, 1) \/ StartPrepare(t) \/ StartLock(t) \/ StartTake(t)
    \/ StartInstall(t) \/ StartUnlock(t) \/ StartRelay(t)
    \/ InvokeExec(t, 1) \/ ExecClearLock(t) \/ ExecClear(t) \/ ExecPrepare(t)
    \/ ExecInstallLock(t) \/ ExecInstall(t) \/ ExecRelay(t)
NextRelay == StartStep(1) \/ \E i \in Ids : RelayStep(i)
SpecRelay == Init /\ [][NextRelay]_vars

\* start_pty_exec and stop_pty_exec, run concurrently
StartStopStep(t) ==
    \/ InvokeStart(t, MaxCalls) \/ StartPrepare(t) \/ StartLock(t) \/ StartTake(t)
    \/ StartInstall(t) \/ StartUnlock(t) \/ StartRelay(t)
    \/ InvokeStop(t, MaxCalls) \/ StopLock(t) \/ StopTake(t)
NextStartStop == \E t \in Calls : StartStopStep(t)
SpecStartStop == Init /\ [][NextStartStop]_vars

\* the life of sessions: start_pty_exec, send_exec_input and stop_pty_exec
\* called one after the other, the shells (which may exit on their own)
\* and the reader threads, whose sessions have no output left
SessionStep(t) ==
    \/ InvokeStart(t, 1) \/ StartPrepare(t) \/ StartLock(t) \/ StartTake(t)
    \/ StartInstall(t) \/ StartUnlock(t) \/ StartRelay(t)
    \/ InvokeSend(t, 1) \/ SendLock(t) \/ SendWrite(t) \/ SendFlush(t)
    \/ InvokeStop(t, 1) \/ StopLock(t) \/ StopTake(t)
ReaderStep(i) == RelayReadEnd(i) \/ RelayDone(i)
NextSession ==
    \/ \E t \in Calls : SessionStep(t)
    \/ \E i \in Ids : ReaderStep(i) \/ ChildExit(i)
SpecSession == Init /\ [][NextSession]_vars

\* sessions that are started and stopped or replaced, one call after the
\* other, with their shells and their reader threads; the threads are
\* scheduled: one that can make a step (its read has something to return,
\* or its loop has ended) makes it
KillStep(t) ==
    \/ InvokeStart(t, 1) \/ StartPrepare(t) \/ StartLock(t) \/ StartTake(t)
    \/ StartInstall(t) \/ StartUnlock(t) \/ StartRelay(t)
    \/ InvokeStop(t, 1) \/ StopLock(t) \/ StopTake(t)
NextKill ==
    \/ \E t \in Calls : KillStep(t)
    \/ \E i \in Ids : ReaderStep(i) \/ ChildExit(i)
ReaderFairness == \A i \in Ids : WF_vars(ReaderStep(i))
SpecKillFair == Init /\ [][NextKill]_vars /\ ReaderFairness

\* start_kubectl_proxy up to its health-check loop: at most k calls in flight
ProxySpawnStep(t, k) ==
    \/ InvokeProxyStart(t, k) \/ ProxyLock(t) \/ ProxyTake(t) \/ ProxySpawn(t)
    \/ ProxyDrain(t) \/ ProxyInstall(t) \/ ProxyClient(t)
\* the whole of it, probe results drawn from R
ProxyStartStep(t, k, R) ==
    \/ ProxySpawnStep(t, k) \/ ProxyProbe(t, R) \/ ProxyExhausted(t)
\* stop_kubectl_proxy and the exit handler
ProxyStopStep(t, k) ==
    \/ InvokeProxyStop(t, k) \/ ProxyStopLock(t) \/ ProxyStopTake(t)
    \/ InvokeExit(t, k) \/ ExitLock(t) \/ ExitTake(t)

\* the proxy commands and the exit handler, run concurrently, every probe
\* answered at once: no call stays in its health-check loop
NextProxy ==
    \E t \in Calls :
        ProxySpawnStep(t, MaxCalls) \/ ProxyProbe(t, {Response(200)})
        \/ ProxyStopStep(t, MaxCalls)
SpecProxy == Init /\ [][NextProxy]_vars

\* the same, with at most two calls in flight and probes that fail as well
NextProxyPairs ==
    \E t \in Calls : ProxyStartStep(t, 2, ReadyOrNot) \/ ProxyStopStep(t, 2)
SpecProxyPairs == Init /\ [][NextProxyPairs]_vars

\* the proxy commands and the exit handler with at most two calls in
\* flight, where the probes of call 1 can fail, so that it stays in its
\* health-check loop while a later call runs; the probes of the later calls
\* are answered at once
PollResults(t) == IF t = 1 THEN ReadyOrNot ELSE {Response(200)}
NextProxyPoll ==
    \E t \in Calls :
        ProxyStartStep(t, 2, PollResults(t)) \/ ProxyStopStep(t, 2)
SpecProxyPoll == Init /\ [][NextProxyPoll]_vars

\* one after the other, every probe result
NextProxySeq ==
    \E t \in Calls : ProxyStartStep(t, 1, ProbeResults) \/ ProxyStopStep(t, 1)
SpecProxySeq == Init /\ [][NextProxySeq]_vars

\* one after the other, a probe ready or not, under the runtime's
\* scheduling: the future of a command that is past the lock is polled until
\* it returns; the sleep of 500 ms ends and the probe ends within the
\* client's timeout of 400 ms
NextProxyLoop ==
    \E t \in Calls : ProxyStartStep(t, 1, ReadyOrNot) \/ ProxyStopStep(t, 1)
ProbeFairness ==
    \A t \in Calls :
        WF_vars(ProxyClient(t) \/ ProxyProbe(t, ReadyOrNot) \/ ProxyExhausted(t))
SpecProxyFair == Init /\ [][NextProxyLoop]_vars /\ ProbeFairness

\* one start_kubectl_proxy (call 1) whose probes take time
NextProxyClock == ProxyStartStep(1, 1, TimedResults)
SpecProxyClock == Init /\ [][NextProxyClock]_vars

\* one start_kubectl_proxy (call 1) and the stderr drain thread it spawns
NextProxyLog == ProxyStartStep(1, 1, ProbeResults) \/ DrainStderr(1)
SpecProxyLog == Init /\ [][NextProxyLog]_vars

\* the commands of exec.rs and of proxy.rs, one after the other
NextExecProxy ==
    \E t \in Calls :
        ExecStep(t, 1) \/ ProxyStartStep(t, 1, ReadyOrNot) \/ ProxyStopStep(t, 1)
SpecExecProxy == Init /\ [][NextExecProxy]_vars

\* ------------------------------------------------------------- claims
IsStart(t) == loc[t].cmd = "start_pty_exec"
IsStop(t) == loc[t].cmd = "stop_pty_exec"
\* call i of start_pty_exec has stored its session in the slot
Installed(i) == IsStart(i) /\ pc[i] \in {"start_unlock", "start_relay", "Ok"}

\* C1: when a start_pty_exec has replaced the slot's value and still holds
\* the guard, the slot holds exactly the session it created, that session
\* is not the one it found, and the child of the session it found (and of
\* every other session ever stored) has received a call of kill.
C1_StartReplacesAndKills ==
    \A t \in Calls :
        pc[t] = "start_unlock" =>
            /\ ptySession = PtySessionInner(t, t, t)
            /\ loc[t].saw # t
            /\ loc[t].saw # 0 => proc[loc[t].saw].kills >= 1
            /\ \A i \in Ids \ {t} : Installed(i) => proc[i].kills >= 1

\* a start_pty_exec that found a session registered has replaced it
C1_Witness ==
    \E t \in Calls : pc[t] = "start_unlock" /\ loc[t].saw # 0

\* C2 (SpecSeq): in a run start -> stop -> start, each returning Ok, the
\* first session's child had received its kill when the second session's
\* child was spawned, and when the second start has returned the slot holds
\* exactly the second session.
StartOk(t) == IsStart(t) /\ pc[t] = "Ok"
StopOk(t) == IsStop(t) /\ pc[t] = "Ok"
NoLaterCall(t) == IF t = MaxCalls THEN TRUE ELSE pc[t + 1] = "new"
StartStopStart(t) == t >= 3 /\ StartOk(t - 2) /\ StopOk(t - 1) /\ StartOk(t)
C2_KillBeforeSpawn ==
    \A t \in Calls :
        StartStopStart(t) =>
            /\ proc[t - 2].kills = 1
            /\ (t - 2) \in proc[t].killedBefore
            /\ NoLaterCall(t) => ptySession = PtySessionInner(t, t, t)

C2_Witness ==
    \E t \in Calls : StartStopStart(t) /\ NoLaterCall(t)

\* C3 (SpecAll): while a start call is replacing a registered session (it
\* found one, and has not yet stored and released its own), a send_exec_input
\* or resize_pty that holds the guard and looks at the slot finds a session
\* there, all of whose handles come from one start call: never an empty slot,
\* never a torn session.
WholeExec(s) == s # NoSession /\ s.writer = s.child /\ s.master = s.child
WholePod(s) == s # NoPodSession /\ s.writer = s.child
ExecReplacing(t) == pc[t] \in {"start_install", "start_unlock"} /\ loc[t].saw # 0
PodsReplacing(t) ==
    pc[t] \in {"exec_prepare", "exec_install_lock", "exec_install"} /\ loc[t].saw # 0
ExecObserving(u) == pc[u] \in {"send_write", "resize_do"}
PodsObserving(u) == pc[u] = "psend_write"
C3_ObservesOldOrNew ==
    \A t, u \in Calls :
        /\ (ExecReplacing(t) /\ ExecObserving(u)) => WholeExec(ptySession)
        /\ (PodsReplacing(t) /\ PodsObserving(u)) => WholePod(ptyState)

\* the half of C3 that concerns exec.rs alone: take and store are one
\* critical section, so nobody looks at the slot in between
C3_ExecReplaceIsAtomic ==
    \A t, u \in Calls : ExecReplacing(t) => ~ExecObserving(u)

\* C4 (SpecAll): send_exec_input (of either file) and resize_pty, finding
\* the lock not poisoned, take it and change nothing; finding the slot
\* empty, they return Ok, write no bytes, change no geometry, make no call
\* of kill, leave the slot empty and the lock unpoisoned.
SteppedFrom(t, label) == pc[t] = label /\ pc'[t] # label
C4_EmptyRegistryNoOp ==
    [][\A t \in Calls :
         /\ (\/ SteppedFrom(t, "send_lock") /\ ~sessionLock.poisoned
             \/ SteppedFrom(t, "resize_lock") /\ ~sessionLock.poisoned
             \/ SteppedFrom(t, "psend_lock") /\ ~stateLock.poisoned)
              => /\ pc'[t] \in {"send_write", "resize_do", "psend_write"}
                 /\ UNCHANGED <<ptySession, ptyState, hwVars>>
         /\ (\/ SteppedFrom(t, "send_write") /\ ptySession = NoSession
             \/ SteppedFrom(t, "resize_do") /\ ptySession = NoSession)
              => /\ pc'[t] = "Ok"
                 /\ sessionLock' = FreeLock
                 /\ UNCHANGED <<ptySession, podsVars, hwVars>>
         /\ (SteppedFrom(t, "psend_write") /\ ptyState = NoPodSession)
              => /\ pc'[t] = "Ok"
                 /\ stateLock' = FreeLock
                 /\ UNCHANGED <<ptyState, execVars, hwVars>>
      ]_vars

\* each of the three commands has found the slot empty and returned Ok
FoundEmpty(cmd) == \E t \in Calls : loc[t].cmd = cmd /\ pc[t] = "Ok" /\ loc[t].saw = 0
C4_Witness ==
    /\ FoundEmpty("send_exec_input")
    /\ FoundEmpty("resize_pty")
    /\ FoundEmpty("pods::send_exec_input")

\* C5 as stated: every stop_pty_exec that returns, returns Ok.
C5_StopAlwaysOk ==
    \A t \in Calls : (IsStop(t) /\ pc[t] \in {"Ok", "Err"}) => pc[t] = "Ok"

\* C5, amended: a stop_pty_exec that finds the lock not poisoned takes it;
\* then it leaves the slot empty and returns Ok, whether a session was
\* registered or not and whether its kill returned Ok or Err (it unwinds
\* only if the kill call itself does); finding the slot empty it makes
\* no call of kill and changes nothing.  Finding the lock poisoned it
\* returns Err.
C5_StopIdempotent ==
    [][\A t \in Calls :
         /\ SteppedFrom(t, "stop_lock") =>
              /\ pc'[t] = (IF sessionLock.poisoned THEN "Err" ELSE "stop_take")
              /\ UNCHANGED <<ptySession, hwVars>>
         /\ SteppedFrom(t, "stop_take") =>
              /\ ptySession' = NoSession
              /\ pc'[t] \in {"Ok", "Panic"}
              /\ pc'[t] = "Panic" =>
                    /\ ptySession # NoSession
                    /\ proc'[ptySession.child].kills = proc[ptySession.child].kills + 1
              /\ ptySession = NoSession =>
                    /\ pc'[t] = "Ok"
                    /\ UNCHANGED hwVars
              /\ \A i \in Ids : proc'[i].kills # proc[i].kills => i = ptySession.child
      ]_vars

\* start, stop, stop: the first stop's kill failed and it returned Ok all
\* the same; the second found the slot empty and returned Ok
C5_Witness ==
    \E t, u \in Calls :
        /\ t < u
        /\ StopOk(t) /\ loc[t].saw # 0
        /\ proc[loc[t].saw].kills = 1 /\ proc[loc[t].saw].st = "running"
        /\ StopOk(u) /\ loc[u].saw = 0

\* C6: no child receives more than one call of kill, whatever the
\* interleaving of the start_pty_exec and stop_pty_exec calls.
C6_AtMostOneKill ==
    \A i \in Ids : proc[i].kills <= 1

\* a start has taken and killed session i while a stop waits for the lock
C6_Witness ==
    \E t, u \in Calls :
        /\ pc[t] = "start_install" /\ loc[t].saw # 0
        /\ proc[loc[t].saw].kills = 1
        /\ pc[u] = "stop_lock"

\* C7 (SpecAll): a child spawned by a start call that has returned is held
\* in a slot or has received a call of kill.
Held(i) == ptySession.child = i \/ ptyState.child = i
C7_NoOrphan ==
    \A i \in Ids :
        (proc[i].st # "none" /\ pc[i] \in Results) => (Held(i) \/ proc[i].kills >= 1)

\* C8 and C9 (SpecRelay): the history of one reader loop
ReadsOf(i) == relay[i].reads
EmitsOf(i) == relay[i].emits
\* the reader yielded chunks c1..cn and then a zero-length read
ReadToEof(i) ==
    /\ ReadsOf(i) # <<>>
    /\ ReadsOf(i)[Len(ReadsOf(i))] = Eof
    /\ \A k \in 1..(Len(ReadsOf(i)) - 1) : ReadsOf(i)[k].tag = "chunk"
\* the bytes are well-formed UTF-8 (one- and two-byte sequences)
RECURSIVE ValidUtf8(_)
ValidUtf8(bs) ==
    IF bs = <<>> THEN TRUE
    ELSE IF bs[1] < 128 THEN ValidUtf8(Tail(bs))
    ELSE /\ Len(bs) >= 2
         /\ bs[1] \in 194..223
         /\ bs[2] \in 128..191
         /\ ValidUtf8(Tail(Tail(bs)))
\* the loop made one emit per chunk, in order, each an output event that
\* was published, and no other emit before the terminal one
ChunkCount(i) == Len(ReadsOf(i)) - 1
OutputsInOrder(i) ==
    /\ Len(EmitsOf(i)) = ChunkCount(i) + (IF relay[i].st = "done" THEN 1 ELSE 0)
    /\ \A k \in 1..ChunkCount(i) :
         /\ EmitsOf(i)[k].name = OutputEvent(relay[i].kind)
         /\ EmitsOf(i)[k].ok
    /\ relay[i].st = "done" =>
         EmitsOf(i)[ChunkCount(i) + 1].name = DoneEvent(relay[i].kind)

\* C8 as stated: the n output events carry the bytes of c1..cn.
SameBytes(chunk, data) == Utf8Bytes(data) = chunk
LossyBytes(chunk, data) ==
    /\ data = FromUtf8Lossy(chunk)
    /\ ValidUtf8(chunk) <=> Utf8Bytes(data) = chunk
    /\ ~ValidUtf8(chunk) => \E k \in 1..Len(data) : data[k] = 65533
DoneEmits(i) == {k \in 1..Len(EmitsOf(i)) : EmitsOf(i)[k].name = DoneEvent(relay[i].kind)}
DonePublished(i) == {k \in DoneEmits(i) : EmitsOf(i)[k].ok}
\* no read after the first zero-length read or error; no emit after the
\* terminal one
NoReadAfterEnd(i) ==
    \A k \in 1..Len(ReadsOf(i)) : ReadsOf(i)[k].tag # "chunk" => k = Len(ReadsOf(i))
NoEmitAfterDone(i) == \A k \in DoneEmits(i) : k = Len(EmitsOf(i))

\* C9 as stated: a loop that has ended has published the terminal event
\* exactly once.
C9_DonePublishedOnce ==
    \A i \in Ids :
        relay[i].st = "done" =>
            /\ Cardinality(DonePublished(i)) = 1
            /\ NoEmitAfterDone(i)
            /\ NoReadAfterEnd(i)

\* C9, amended: a loop emits the terminal event exactly once, when it ends
\* (after a zero-length read, a read error, or an output event it could not
\* publish) and not before; the event is published at most once, for that
\* emit's result is ignored and it can fail; there is no emit after it and
\* no read after the first zero-length read or error.
EndedBy(i) ==
    \/ ReadsOf(i) # <<>> /\ ReadsOf(i)[Len(ReadsOf(i))].tag \in {"eof", "err"}
    \/ \E k \in 1..Len(EmitsOf(i)) :
          EmitsOf(i)[k].name = OutputEvent(relay[i].kind) /\ ~EmitsOf(i)[k].ok
C9_DoneEmittedOnce ==
    \A i \in Ids :
        /\ Cardinality(DoneEmits(i)) = (IF relay[i].st = "done" THEN 1 ELSE 0)
        /\ Cardinality(DonePublished(i)) <= 1
        /\ NoEmitAfterDone(i)
        /\ NoReadAfterEnd(i)
        /\ relay[i].st \in {"finish", "done"} <=> (relay[i].st # "none" /\ EndedBy(i))

\* the loop ended because an output event could not be published, and the
\* terminal event could not be published either
C9_Witness ==
    \E i \in Ids :
        /\ relay[i].st = "done"
        /\ Len(EmitsOf(i)) >= 2
        /\ ~EmitsOf(i)[Len(EmitsOf(i)) - 1].ok
        /\ DoneEmits(i) # {} /\ DonePublished(i) = {}

\* C10: the registry lock is only ever held by a command call, never by a
\* reader loop: whenever a loop is blocked in read, every call in flight
\* can take its next step, or waits for the lock while the call holding it
\* can take its next step.
RelayBlocked == \E i \in Ids : relay[i].st = "read"
WaitsForLock(t) == pc[t] \in {"start_lock", "send_lock", "resize_lock", "stop_lock"}
C10_RelayHoldsNoLock ==
    RelayBlocked =>
        /\ sessionLock.holder \in Calls \cup {0}
        /\ \A t \in Calls :
             InFlight(t) =>
                 \/ ENABLED ExecStep(t, MaxCalls)
                 \/ /\ WaitsForLock(t)
                    /\ sessionLock.holder \in Calls \ {t}
                    /\ ENABLED ExecStep(sessionLock.holder, MaxCalls)

\* while the loop of session i is blocked in read, a send_exec_input and a
\* stop_pty_exec have found session i and returned Ok
C10_Witness ==
    \E i \in Ids : \E t, u \in Calls :
        /\ relay[i].st = "read"
        /\ loc[t].cmd = "send_exec_input" /\ pc[t] = "Ok" /\ loc[t].saw = i
        /\ StopOk(u) /\ loc[u].saw = i

\* ---------------------------------------------------- claims: the proxy
IsProxyStart(t) == loc[t].cmd = "start_kubectl_proxy"
IsProxyStop(t) == loc[t].cmd = "stop_kubectl_proxy"
IsExit(t) == loc[t].cmd = "exit"
\* the proxy process call i spawned has received no call of kill
LiveProxy(i) == IsProxyStart(i) /\ proc[i].st # "none" /\ proc[i].kills = 0

\* C11 (SpecProxy): whatever the interleaving of start_kubectl_proxy,
\* stop_kubectl_proxy and the exit handler, at most one proxy process has
\* been spawned and has not received a call of kill.
C11_AtMostOneProxy ==
    Cardinality({i \in Ids : LiveProxy(i)}) <= 1

\* a start has killed the proxy it found and spawned its own, which it has
\* not installed yet, while a stop or the exit handler waits for the lock
C11_Witness ==
    \E t, u \in Calls :
        /\ pc[t] \in {"proxy_drain", "proxy_install"}
        /\ loc[t].saw # 0
        /\ LiveProxy(t)
        /\ pc[u] \in {"pstop_lock", "exit_lock"}

\* C12 (SpecProxy): a start_kubectl_proxy that finds a proxy registered
\* takes it out of the slot and calls kill on it before it spawns its own
\* process, and holds the slot lock from the take to the install: no other
\* call is inside a critical section meanwhile, and between the kill and
\* the spawn the slot is empty.
InProxySection(t) ==
    pc[t] \in {"proxy_take", "proxy_spawn", "proxy_drain", "proxy_install",
               "pstop_take", "exit_take"}
C12_KillBeforeSpawnLocked ==
    \A t \in Calls :
        /\ InProxySection(t) =>
              /\ proxyLock.holder = t
              /\ \A u \in Calls \ {t} : ~InProxySection(u)
        /\ (IsProxyStart(t) /\ loc[t].saw # 0) =>
              /\ proc[loc[t].saw].kills >= 1
              /\ kubectlProxy # loc[t].saw
              /\ pc[t] = "proxy_spawn" => (kubectlProxy = 0 /\ proc[t].st = "none")
              /\ proc[t].st # "none" => loc[t].saw \in proc[t].killedBefore

\* a start that found a proxy registered has spawned and installed its own
C12_Witness ==
    \E t \in Calls :
        /\ IsProxyStart(t) /\ loc[t].saw # 0
        /\ pc[t] = "proxy_client"
        /\ kubectlProxy = t

\* call t makes a turn of its health-check loop; probed' is the result
ProbeTurn(t) == pc[t] = "proxy_probe" /\ <<pc[t], loc[t]>>' # <<pc[t], loc[t]>>
\* a step of the health-check loop, from a given point on
ProbeLoop(from) ==
    \A t \in Calls :
        /\ ProbeTurn(t) =>
              /\ probed'.attempt = loc[t].attempts + 1
              /\ probed'.attempt <= MaxAttempts
              /\ ProbeReady(probed') => pc'[t] = "Ok"
              /\ ~ProbeReady(probed') =>
                    /\ loc'[t].attempts = probed'.attempt
                    /\ pc'[t] = IF probed'.attempt = MaxAttempts
                                THEN "proxy_exhausted" ELSE "proxy_probe"
        \* the error after the loop: every one of the 10 probes was sent
        /\ SteppedFrom(t, "proxy_exhausted") =>
              /\ loc[t].attempts = MaxAttempts
              /\ pc'[t] = "Err" /\ loc'[t].err = "exhausted"
        \* Err from the point on comes only from the end of the loop
        /\ (pc[t] \in from /\ pc'[t] = "Err") => pc[t] = "proxy_exhausted"
        \* a call that returned sends no probe
        /\ (IsProxyStart(t) /\ pc[t] \in Results) =>
              /\ pc'[t] = pc[t]
              /\ probed' # probed => \E u \in Calls \ {t} : ProbeTurn(u)

\* C13 as stated: once the spawn has succeeded and the process is in the
\* slot, the call sends probes one at a time, returns Ok at the first ready
\* one and sends none after it, returns Err only after 10 probes none of
\* which was ready, and always returns.
C13_AfterSpawnProbes ==
    /\ [][ProbeLoop({"proxy_client", "proxy_probe", "proxy_exhausted"})]_vars
    /\ \A t \in Calls : (pc[t] = "proxy_client") ~> (pc[t] \in {"Ok", "Err"})

\* C13, amended: the same from the point where the HTTP client is built
\* (lines 217-220); a failure to build it returns Err before any probe.
C13_ProbesUntilReadyOrTen ==
    /\ [][ProbeLoop({"proxy_probe", "proxy_exhausted"})]_vars
    /\ \A t \in Calls : (pc[t] = "proxy_probe") ~> (pc[t] \in {"Ok", "Err"})

\* a start returned Ok at a probe that was ready on the 10th attempt only,
\* after another returned the error of the exhausted loop
C13_Witness ==
    \E t, u \in Calls :
        /\ IsProxyStart(t) /\ pc[t] = "Ok"
        /\ ProbeReady(probed) /\ probed.attempt = MaxAttempts
        /\ IsProxyStart(u) /\ pc[u] = "Err" /\ loc[u].err = "exhausted"

\* C14 (SpecProxySeq): a probe is ready if and only if it has a response
\* whose status is in 200..299 or is 403: then the call returns Ok.  Every
\* other status, and every error of the transport (a timeout is one),
\* is not ready: the call does not return Ok and one attempt is consumed.
ReadyStatuses == (200..299) \cup {403}
C14_ReadyIffSuccessOr403 ==
    [][\A t \in Calls :
         ProbeTurn(t) =>
            /\ pc'[t] = "Ok" <=> (probed'.tag = "resp" /\ probed'.status \in ReadyStatuses)
            /\ pc'[t] # "Ok" =>
                  /\ pc'[t] \in {"proxy_probe", "proxy_exhausted"}
                  /\ loc'[t].attempts = loc[t].attempts + 1
      ]_vars

\* a start returned Ok at a probe answered 403, its third: a status below
\* 200 or above 299, or an error, had consumed each of the two before
C14_Witness ==
    \E t \in Calls :
        /\ IsProxyStart(t) /\ pc[t] = "Ok"
        /\ probed = [Response(403) EXCEPT !.attempt = 3]

\* C15 (SpecProxyLog): the error start_kubectl_proxy returns after 10
\* failed probes carries the text its stderr_log holds at that moment, the
\* lines read so far from the stderr of the process this call spawned;
\* when that text is empty or has whitespace only, it carries the fixed
\* placeholder instead.
HasText(cs) == \E k \in 1..Len(cs) : ~IsWhitespace(cs[k])
C15_ErrorCarriesStderr ==
    [][\A t \in Calls :
         SteppedFrom(t, "proxy_exhausted") =>
            /\ pc'[t] = "Err" /\ loc'[t].err = "exhausted"
            /\ IF HasText(stderrLog[t].buf)
               THEN loc'[t].detail = [placeholder |-> FALSE, text |-> stderrLog[t].buf]
               ELSE loc'[t].detail = NoOutputCaptured
      ]_vars

\* the call returned the error with the line "E" its process had written
C15_Witness ==
    /\ pc[1] = "Err" /\ loc[1].err = "exhausted"
    /\ ~loc[1].detail.placeholder
    /\ HasText(loc[1].detail.text)
    /\ loc[1].detail.text = stderrLog[1].buf

\* C16 (SpecProxySeq): when start_kubectl_proxy has returned the error of
\* the exhausted health-check and no other command was invoked since it
\* was, the process it spawned is in the proxy slot and no call of kill
\* has been made on it.
Exhausted(t) == IsProxyStart(t) /\ pc[t] = "Err" /\ loc[t].err = "exhausted"
C16_ExhaustedKeepsProcess ==
    \A t \in Calls :
        (Exhausted(t) /\ NoLaterCall(t)) =>
            /\ kubectlProxy = t
            /\ proc[t].st # "none"
            /\ proc[t].kills = 0
            /\ t \notin dropped

\* a start that replaced a running proxy returned the error of the
\* exhausted health-check, and nothing was invoked after it
C16_Witness ==
    \E t \in Calls :
        /\ Exhausted(t) /\ NoLaterCall(t)
        /\ loc[t].saw # 0
        /\ kubectlProxy = t

\* the commands of the claim, the mutex each locks and the label at which
\* it does
LockCommands == {"start_pty_exec", "send_exec_input", "resize_pty", "stop_pty_exec",
                 "start_kubectl_proxy", "stop_kubectl_proxy"}
LockLabels == {"start_lock", "send_lock", "resize_lock", "stop_lock",
               "proxy_lock", "pstop_lock"}
LockOf(cmd) ==
    IF cmd \in {"start_kubectl_proxy", "stop_kubectl_proxy"} THEN proxyLock ELSE sessionLock
Running(t) == pc[t] \notin Results \cup {"new"}

\* C17 (SpecExecProxy): when the mutex it locks is poisoned, each of
\* start_pty_exec, send_exec_input, resize_pty, stop_pty_exec,
\* start_kubectl_proxy and stop_kubectl_proxy returns Err from its lock
\* step, leaving the session, the proxy slot and the processes as they
\* were; none of them returns Ok while the mutex is poisoned.
C17_PoisonedLockIsError ==
    [][\A t \in Calls :
         (Running(t) /\ loc[t].cmd \in LockCommands) =>
            /\ (pc[t] \in LockLabels /\ pc'[t] # pc[t] /\ LockOf(loc[t].cmd).poisoned) =>
                  /\ pc'[t] = "Err"
                  /\ UNCHANGED <<ptySession, kubectlProxy, proc, sessionLock, proxyLock>>
            /\ pc'[t] = "Ok" => ~LockOf(loc[t].cmd).poisoned
      ]_vars

\* the session mutex is poisoned with a session registered, and a
\* stop_pty_exec called since has returned Err
C17_Witness ==
    /\ sessionLock.poisoned
    /\ ptySession # NoSession
    /\ \E t \in Calls : IsStop(t) /\ pc[t] = "Err"

\* a start that failed at openpty or at spawn_command: it returned Err and
\* no child was spawned for it
FailedStart(t) ==
    /\ loc[t].cmd \in {"start_pty_exec", "exec_into_pod"}
    /\ pc[t] = "Err"
    /\ proc[t].st = "none"

\* C18 (SpecPairs): a start_pty_exec or exec_into_pod that fails because
\* the pseudo-terminal cannot be opened or the command cannot be spawned
\* returns Err; no relay was started for it, and neither registry then or
\* later holds a writer, master or child the failed call created.
C18_FailedStartLeavesNothing ==
    \A t \in Calls :
        FailedStart(t) =>
            /\ relay[t] = NoRelay
            /\ t \notin {ptySession.writer, ptySession.master, ptySession.child}
            /\ t \notin {ptyState.writer, ptyState.child}

\* after a start_pty_exec registered its session, a second one and an
\* exec_into_pod failed: the first session is still the registered one
C18_Witness ==
    \E t, u \in Calls :
        /\ FailedStart(t) /\ IsStart(t)
        /\ FailedStart(u) /\ loc[u].cmd = "exec_into_pod"
        /\ ptySession.child \notin {0, t}
        /\ relay[ptySession.child].st # "none"

\* C19 (Spec): resize_pty that finds a session registered leaves that
\* session registered, makes no call of kill on any child and changes no
\* relay (no session-ended event); when it returns Ok the geometry of that
\* session's master is the given columns and rows and no other geometry
\* has changed (an Err of master.resize leaves the geometry as it was).
IsResize(t) == loc[t].cmd = "resize_pty"
C19_ResizeOnlySetsGeometry ==
    [][\A t \in Calls :
         (SteppedFrom(t, "resize_do") /\ ptySession # NoSession) =>
            /\ ptySession' = ptySession
            /\ proc' = proc /\ dropped' = dropped
            /\ relay' = relay
            /\ writer' = writer
            /\ pc'[t] = "Ok" =>
                  /\ geom'[ptySession.master] = <<UnwrapOr(loc[t].cols, 0),
                                                  UnwrapOr(loc[t].rows, 0)>>
                  /\ \A m \in Ids \ {ptySession.master} : geom'[m] = geom[m]
            /\ pc'[t] # "Ok" => geom' = geom
      ]_vars

\* resize_pty(100, 40) returned Ok on the session started with 120 columns:
\* the session is still registered, its child has received no kill
C19_Witness ==
    \E t \in Calls :
        /\ IsResize(t) /\ pc[t] = "Ok"
        /\ loc[t].saw # 0
        /\ ptySession.child = loc[t].saw
        /\ geom[ptySession.master] = <<100, 40>>
        /\ proc[ptySession.child].kills = 0

\* stop_kubectl_proxy t got the guard and has returned
Stopped(t) == IsProxyStop(t) /\ pc[t] \in {"Ok", "Err"} /\ loc[t].err # "lock"

\* C20 (SpecProxySeq): a stop_kubectl_proxy that finds the mutex not
\* poisoned takes the guard and leaves the slot empty, whatever its kill
\* returns; finding the slot empty it returns Ok and makes no call of kill.
\* So the second of two stops with nothing between them returns Ok, having
\* found the slot empty.
C20_StopClearsSlotIdempotent ==
    /\ [][\A t \in Calls :
            /\ (SteppedFrom(t, "pstop_lock") /\ ~proxyLock.poisoned) =>
                  (pc'[t] = "pstop_take" /\ proxyLock'.holder = t)
            /\ SteppedFrom(t, "pstop_take") =>
                  /\ kubectlProxy' = 0
                  /\ pc'[t] \in {"Ok", "Err"}
                  /\ kubectlProxy = 0 => (pc'[t] = "Ok" /\ proc' = proc)
       ]_vars
    /\ [](\A t \in Calls \ {1} :
            (Stopped(t - 1) /\ IsProxyStop(t) /\ pc[t] \in Results) =>
                (pc[t] = "Ok" /\ loc[t].saw = 0))

\* a stop killed the running proxy and the stop after it returned Ok: the
\* process has received the one call of kill
C20_Witness ==
    \E t \in Calls \ {1} :
        /\ Stopped(t - 1) /\ loc[t - 1].saw # 0
        /\ IsProxyStop(t) /\ pc[t] = "Ok" /\ loc[t].saw = 0
        /\ proc[loc[t - 1].saw].kills = 1

\* ------------------------------------------- claims: sessions that end
\* the loop of session i saw a zero-length read or a read error and has
\* published the terminal event
SessionEnded(i) ==
    /\ relay[i].st = "done"
    /\ ReadsOf(i) # <<>> /\ ReadsOf(i)[Len(ReadsOf(i))].tag \in {"eof", "err"}
    /\ DonePublished(i) # {}

\* C21 (SpecRelay): a session that has ended on its own is closed once the
\* start that made it has returned and its reader thread has finished,
\* with no other command called: no slot holds it and its handles have
\* been dropped.
C21_EndedSessionCloses ==
    \A i \in Ids :
        (SessionEnded(i) /\ ~ENABLED NextRelay) => (~Held(i) /\ i \in dropped)

\* C22 (SpecSession): a send_exec_input that looks at the slot after the
\* session has ended (its shell has exited, its reader loop has published
\* the terminal event) returns Ok, also when write_all or flush on that
\* session's writer returns Err.
IsSend(t) == loc[t].cmd = "send_exec_input"
C22_LateSendIsNoOp ==
    [][\A t \in Calls :
         (/\ IsSend(t) /\ pc[t] \in {"send_write", "send_flush"}
          /\ ptySession # NoSession
          /\ proc[ptySession.child].st = "exited"
          /\ SessionEnded(ptySession.child)
          /\ pc'[t] \in {"Ok", "Err"}) => pc'[t] = "Ok"
      ]_vars

\* ------------------------------------------------- claims: the two locks
\* the next step of call t can block: a write or a flush to the PTY, a
\* resize of the master, the spawn of a process, a health probe
AtBlockingStep(t) ==
    \/ pc[t] \in {"send_write", "resize_do"} /\ ptySession # NoSession
    \/ pc[t] \in {"send_flush", "start_prepare", "proxy_spawn", "proxy_probe"}
HoldsLock(t) == sessionLock.holder = t \/ proxyLock.holder = t

\* C23 (SpecExecProxy): no command holds the guard of the session mutex or
\* of the proxy mutex when it makes a step that can block.
C23_NoLockAcrossBlockingStep ==
    \A t \in Calls : AtBlockingStep(t) => ~HoldsLock(t)

\* C24 (SpecProxyClock): the health-check loop of start_kubectl_proxy, its
\* sleeps of 500 ms and its probes of up to 400 ms each counted, has lasted
\* at most 5000 ms whenever the call is in it or has left it for the error.
C24_LoopWithinBudget ==
    \A t \in Calls :
        pc[t] \in {"proxy_probe", "proxy_exhausted"} => loc[t].elapsed <= BudgetMs

\* ------------------------------------------ claims: the order of effects
\* no call is running, none has unwound
Quiescent ==
    /\ \A t \in Calls : pc[t] \in {"new", "Ok", "Err"}
    /\ ~sessionLock.poisoned
\* the calls that got the guard: the starts and stops that returned Ok;
\* what each found in the slot (saw) and what it left there
Acquired == {t \in Calls : pc[t] = "Ok" /\ (IsStart(t) \/ IsStop(t))}
Left(t) == IF IsStart(t) THEN t ELSE 0
Orders ==
    {f \in [1..Cardinality(Acquired) -> Acquired] :
        \A j, k \in 1..Cardinality(Acquired) : f[j] = f[k] => j = k}
\* f is an order in which every call found what the call before it left,
\* and the slot holds what the last one left
InOrder(f) ==
    /\ \A k \in DOMAIN f :
          loc[f[k]].saw = (IF k = 1 THEN 0 ELSE Left(f[k - 1]))
    /\ ptySession.child = (IF f = <<>> THEN 0 ELSE Left(f[Len(f)]))
InSection(t) == pc[t] \in {"start_take", "start_install", "start_unlock", "stop_take"}

\* C25 (SpecStartStop): concurrent start_pty_exec and stop_pty_exec take
\* effect in the order in which they get the guard.  A call is in its
\* critical section only with the guard, so one at a time; the slot changes
\* only in a step of the holder; a start leaves its own session in the
\* slot and a stop leaves it empty.  When all calls have returned, they
\* can be put in one order in which each found what the one before left;
\* the slot holds what the last left (the session of the last start, or
\* nothing after a stop), that session has received no kill, and every
\* other session that was installed has received one.
C25_EffectsInLockOrder ==
    /\ [](/\ \A t \in Calls : InSection(t) => sessionLock.holder = t
          /\ Quiescent =>
                /\ \E f \in Orders : InOrder(f)
                /\ \A i \in Acquired :
                      IsStart(i) =>
                         IF ptySession.child = i
                         THEN ptySession = PtySessionInner(i, i, i) /\ proc[i].kills = 0
                         ELSE proc[i].kills = 1)
    /\ [][/\ ptySession' # ptySession =>
                (sessionLock.holder # 0 /\ pc'[sessionLock.holder] # pc[sessionLock.holder])
          /\ \A t \in Calls :
                /\ SteppedFrom(t, "start_unlock") => ptySession = PtySessionInner(t, t, t)
                /\ (SteppedFrom(t, "stop_take") /\ pc'[t] = "Ok") => ptySession' = NoSession
         ]_vars

\* three calls have returned Ok: a start, a stop that found and killed its
\* session, and a start whose session is the registered one
C25_Witness ==
    /\ Quiescent
    /\ Cardinality(Acquired) = 3
    /\ \E t \in Acquired : IsStop(t) /\ loc[t].saw # 0
    /\ ptySession # NoSession
    /\ proc[ptySession.child].kills = 0

\* --------------------------------------------- claims: the exit handler
\* C26 (SpecProxy): the handler of RunEvent::Exit, run while a proxy is
\* registered, gets the guard (the mutex is never poisoned while the slot
\* holds a process), takes the process out of the slot and calls kill on
\* it once; when the handler is done the slot is empty.  No
\* stop_kubectl_proxy is needed for it.
C26_ExitKillsProxy ==
    /\ [](kubectlProxy # 0 => ~proxyLock.poisoned)
    /\ [][\A t \in Calls :
            /\ (SteppedFrom(t, "exit_lock") /\ kubectlProxy # 0) =>
                  (pc'[t] = "exit_take" /\ proxyLock'.holder = t)
            /\ SteppedFrom(t, "exit_take") =>
                  /\ pc'[t] = "Ok"
                  /\ kubectlProxy' = 0
                  /\ kubectlProxy # 0 =>
                        /\ proc'[kubectlProxy].kills = proc[kubectlProxy].kills + 1
                        /\ "exit" \in proc'[kubectlProxy].by
                        /\ kubectlProxy \in dropped'
         ]_vars

\* the handler has run after a start_kubectl_proxy registered its process
\* and no stop_kubectl_proxy was called: the process has received its kill
\* from the handler and the slot is empty
C26_Witness ==
    \E t \in Calls :
        /\ IsExit(t) /\ pc[t] = "Ok" /\ loc[t].saw # 0
        /\ proc[loc[t].saw].by = {"exit"}
        /\ kubectlProxy = 0
        /\ \A u \in Calls : ~IsProxyStop(u)

\* ------------------------------------------------ claims: the stderr log
\* the most the proxy process writes to stderr, each line with its '\n'
MaxStderr == MaxLines * (MaxLineLen + 1)

\* C27 (SpecProxyLog): stderr_log is bounded: its length stays below a
\* limit that does not grow with what the process writes, so of an output
\* of MaxLines full lines some part is left out.
C27_StderrLogBounded ==
    \A i \in Ids : Len(stderrLog[i].buf) < MaxStderr

\* ------------------------------------------------ claims: order of a start
\* C28 (SpecSeq): a start_pty_exec that found a session registered evicted
\* it and called kill on it before it created its own child process: when
\* the new child was spawned the prior one had already received its kill,
\* and the new session is installed only after both.
C28_EvictKillSpawnInstall ==
    \A t \in Calls :
        (IsStart(t) /\ loc[t].saw # 0) =>
            /\ proc[loc[t].saw].kills >= 1
            /\ loc[t].saw \in proc[t].killedBefore
            /\ ptySession.child = t => proc[t].st # "none"

\* ------------------------------------------------ claims: input bytes
\* call t is between its write_all and its flush
Writing(t) == IsSend(t) /\ pc[t] = "send_flush"

\* C29 (Spec): a send_exec_input that finds a session registered when it
\* holds the lock appends exactly its data to that session's input handle
\* and has flushed all of it when it returns Ok; from its write to its
\* return it holds the lock, the session stays registered and no other call
\* writes, so the bytes of two calls do not interleave; and bytes are
\* written only to the handle of the session that is in the slot, never to
\* one that was taken out of it.
C29_WritesWholeToRegistered ==
    /\ [](\A t \in Calls :
             Writing(t) => /\ sessionLock.holder = t
                           /\ ptySession # NoSession
                           /\ ptySession.child = loc[t].saw)
    /\ [][/\ \A t \in Calls :
               /\ (IsSend(t) /\ SteppedFrom(t, "send_write") /\ pc'[t] = "send_flush") =>
                     /\ ptySession # NoSession
                     /\ writer'[ptySession.writer].written
                            = writer[ptySession.writer].written \o loc[t].data
                     /\ \A i \in Ids \ {ptySession.writer} : writer'[i] = writer[i]
               /\ (Writing(t) /\ pc'[t] = "Ok") =>
                     /\ writer'[ptySession.writer].written = writer[ptySession.writer].written
                     /\ writer'[ptySession.writer].flushed = Len(writer[ptySession.writer].written)
               /\ (Writing(t) /\ pc'[t] = "send_flush") =>
                     /\ writer' = writer
                     /\ ptySession' = ptySession
           /\ \A i \in Ids :
               writer'[i].written # writer[i].written =>
                     /\ ptySession.writer = i
                     /\ i \notin dropped
                     /\ \E u \in Calls : IsSend(u) /\ sessionLock.holder = u
          ]_vars

\* two calls wrote to the same session one after the other: the first has
\* returned Ok with its bytes flushed, the second has written its bytes
\* behind them and has not flushed yet
C29_Witness ==
    \E t, u \in Calls :
        /\ t # u /\ IsSend(t) /\ pc[t] = "Ok" /\ loc[t].saw # 0
        /\ Writing(u) /\ loc[u].saw = loc[t].saw
        /\ writer[loc[t].saw].flushed > 0
        /\ writer[loc[t].saw].flushed < Len(writer[loc[t].saw].written)

\* ------------------------------------------------ claims: a killed session
\* session i has a reader thread, and a stop_pty_exec or a replacing
\* start_pty_exec has called kill on its child, which is gone
KilledByCommand(i) ==
    /\ relay[i].st # "none"
    /\ proc[i].by \cap {"stop_pty_exec", "start_pty_exec"} # {}
    /\ proc[i].st = "exited"
\* the reader of session i got a zero-length read or an error as its last
\* read, and its loop has ended
SawEndOfStream(i) ==
    /\ relay[i].st = "done"
    /\ ReadsOf(i) # <<>> /\ ReadsOf(i)[Len(ReadsOf(i))].tag \in {"eof", "err"}
\* only the reader thread changes its own state, and its loop ends only on
\* what its read returned once the child was gone
NoOtherSignal ==
    \A i \in Ids :
        (relay[i].st # "none" /\ relay'[i] # relay[i]) =>
            /\ UNCHANGED <<pc, loc, execVars, hwVars>>
            /\ (relay[i].st = "read" /\ relay'[i].st = "finish") =>
                  /\ proc[i].st = "exited"
                  /\ relay'[i].reads[Len(relay'[i].reads)].tag \in {"eof", "err"}

Polling(t) ==
    IsProxyStart(t) /\ pc[t] \in {"proxy_client", "proxy_probe", "proxy_exhausted"}
\* call u waits for the proxy slot lock
AtProxyLock(u) == pc[u] \in {"proxy_lock", "pstop_lock", "exit_lock"}

\* C31 (SpecProxyPoll): a start_kubectl_proxy that polls does not hold
\* the proxy slot lock and no step of its loop takes it or touches the
\* slot; so while it polls the lock is free for a stop_kubectl_proxy or
\* another start_kubectl_proxy unless a third call is inside its critical
\* section, and that call's lock step acquires it (or returns the error of
\* a poisoned lock).
C31_PollsWithoutLock ==
    /\ [](\A t \in Calls :
             Polling(t) =>
                /\ proxyLock.holder # t
                /\ \A u \in Calls \ {t} :
                      (AtProxyLock(u) /\ \A v \in Calls : ~InProxySection(v))
                          => proxyLock.holder = 0)
    /\ [][\A t \in Calls :
             /\ (Polling(t) /\ pc'[t] # pc[t]) =>
                   /\ proxyLock' = proxyLock
                   /\ kubectlProxy' = kubectlProxy
             /\ Polling(t) => proxyLock'.holder # t
             /\ \A u \in Calls \ {t} :
                   (Polling(t) /\ AtProxyLock(u) /\ pc'[u] # pc[u] /\ ~proxyLock.poisoned)
                       => /\ proxyLock'.holder = u
                          /\ Polling(t)'
         ]_vars

\* while call t was polling (it has made a probe and still polls), a
\* stop_kubectl_proxy took the lock, killed the process t had registered
\* and returned Ok
C31_Witness ==
    \E t, u \in Calls :
        /\ Polling(t) /\ pc[t] = "proxy_probe" /\ loc[t].attempts >= 1
        /\ IsProxyStop(u) /\ pc[u] = "Ok" /\ loc[u].saw = t

\* ------------------------------------------------ claims: a failed start
\* the calls of kill made so far on each child
Kills == [i \in Ids |-> proc[i].kills]

\* C32 (SpecSeq): a start_pty_exec that returns Err (openpty,
\* spawn_command, try_clone_reader, take_writer or the lock failed) has
\* made no step that changed the registry or called kill: every step it
\* makes before the lock is taken leaves the slot and every child's kills
\* as they were, so a start that fails right after one that returned Ok
\* leaves that one's session registered, with no kill and its handles held.
C32_FailedStartKeepsRegistry ==
    /\ [](\A t \in Calls :
             (IsStart(t) /\ pc[t] = "Err") =>
                /\ loc[t].saw = 0
                /\ ptySession.child # t
                /\ (t >= 2 /\ StartOk(t - 1) /\ NoLaterCall(t)) =>
                      /\ ptySession = PtySessionInner(t - 1, t - 1, t - 1)
                      /\ proc[t - 1].kills = 0
                      /\ (t - 1) \notin dropped)
    /\ [][\A t \in Calls :
             (IsStart(t) /\ pc[t] # pc'[t] /\ pc'[t] = "Err") =>
                /\ pc[t] \in {"start_prepare", "start_lock"}
                /\ ptySession' = ptySession
                /\ Kills' = Kills
         ]_vars

\* a start_pty_exec registered its session; the next one spawned its child
\* and then failed: the first session is still registered and not killed
C32_Witness ==
    \E t \in Calls :
        /\ t >= 2 /\ StartOk(t - 1) /\ NoLaterCall(t)
        /\ IsStart(t) /\ pc[t] = "Err" /\ proc[t].st = "running"
        /\ ptySession.child = t - 1 /\ proc[t - 1].kills = 0

\* ------------------------------------------------ claims: a start that returns Ok
\* some kubectl proxy process is running, to answer a probe on port 8001
Listening == \E i \in Ids : proc[i].st = "running"

\* C33 (SpecProxyPoll): when a start_kubectl_proxy returns Ok, its probe
\* answered by a running proxy, the process that call spawned is the one in
\* the slot and no kill was called on it, whatever other
\* start_kubectl_proxy and stop_kubectl_proxy calls did meanwhile.
C33_OkHoldsOwnProcess ==
    [][\A t \in Calls :
         (IsProxyStart(t) /\ pc[t] = "proxy_probe" /\ pc'[t] = "Ok" /\ Listening) =>
            /\ kubectlProxy' = t
            /\ proc'[t].kills = 0
      ]_vars

\* ------------------------------------------------ claims: events after a replacement
\* the events the relay of session i has published
PublishedOf(i) == SelectSeq(EmitsOf(i), LAMBDA e : e.ok)

\* C34 (SpecSession): once a start_pty_exec that replaced a session has
\* installed its own and returned Ok, the relay of the session it replaced
\* publishes no further event: neither session output nor session ended.
C34_NoEventFromReplaced ==
    [][\A t \in Calls :
         (StartOk(t) /\ loc[t].saw # 0) =>
            PublishedOf(loc[t].saw)' = PublishedOf(loc[t].saw)
      ]_vars

\* ------------------------------------------------ claims: a kill that fails
\* this step made a call of kill on process i, and the call failed: the
\* process runs on
KillFailed(i) ==
    /\ proc'[i].kills = proc[i].kills + 1
    /\ proc[i].st = "running" /\ proc'[i].st = "running"

\* C35 (SpecProxy): a call of kill that fails was made on the process in
\* the proxy slot by a call that had already taken it out: the slot is
\* empty after the step and the handle is dropped.  stop_kubectl_proxy
\* returns Err with the lock released; start_kubectl_proxy goes on to spawn
\* its own process, still holding the lock; the exit handler returns.  A
\* process that has received a kill is never in the slot again.
C35_FailedKillLeavesSlotEmpty ==
    /\ [](\A i \in Ids : proc[i].kills > 0 => kubectlProxy # i)
    /\ [][\A i \in Ids :
             KillFailed(i) =>
                /\ kubectlProxy = i /\ kubectlProxy' = 0
                /\ i \in dropped'
                /\ \E t \in Calls :
                      /\ proxyLock.holder = t /\ pc'[t] # pc[t]
                      /\ loc'[t].saw = i
                      /\ IsProxyStop(t) =>
                            /\ pc'[t] = "Err" /\ loc'[t].err = "kill"
                            /\ proxyLock' = FreeLock
                      /\ IsProxyStart(t) =>
                            /\ pc'[t] = "proxy_spawn"
                            /\ proxyLock' = proxyLock
                      /\ IsExit(t) =>
                            /\ pc'[t] = "Ok"
                            /\ proxyLock' = FreeLock
         ]_vars

\* the kill of a replacing start_kubectl_proxy failed and the call went on
\* to register its own process; then the kill of a stop_kubectl_proxy
\* failed on that one and the call returned Err: both processes run and
\* the slot is empty
C35_Witness ==
    \E t, u \in Calls :
        /\ IsProxyStart(t) /\ loc[t].saw # 0 /\ pc[t] = "Ok"
        /\ proc[loc[t].saw].st = "running" /\ proc[loc[t].saw].by = {"start_kubectl_proxy"}
        /\ IsProxyStop(u) /\ pc[u] = "Err" /\ loc[u].err = "kill" /\ loc[u].saw = t
        /\ proc[t].st = "running" /\ proc[t].kills = 1
        /\ kubectlProxy = 0

\* ------------------------------------------------ claims: a spawn that fails
\* call t of start_kubectl_proxy returned the error of Command::spawn
SpawnFailed(t) == IsProxyStart(t) /\ pc[t] = "Err" /\ loc[t].err = "spawn"

\* C36 (SpecProxySeq): a start_kubectl_proxy whose spawn fails returns Err
\* from that step: it has made no probe and spawned no process, the
\* process it found in the slot (if any) has received its kill and is
\* dropped, the lock is released and the slot is empty, and stays so until
\* a later call.
C36_FailedSpawnLeavesSlotEmpty ==
    /\ [](\A t \in Calls :
             SpawnFailed(t) =>
                /\ proc[t].st = "none"
                /\ stderrLog[t] = NoLog
                /\ loc[t].saw # 0 =>
                      /\ proc[loc[t].saw].kills >= 1
                      /\ loc[t].saw \in dropped
                /\ NoLaterCall(t) => (kubectlProxy = 0 /\ proxyLock = FreeLock))
    /\ [][\A t \in Calls :
             /\ (IsProxyStart(t) /\ pc'[t] # pc[t]
                   /\ pc[t] \in {"proxy_lock", "proxy_take", "proxy_spawn"})
                    => probed' = probed
             /\ (~SpawnFailed(t) /\ SpawnFailed(t)') =>
                   /\ pc[t] = "proxy_spawn"
                   /\ kubectlProxy = 0 /\ kubectlProxy' = 0
                   /\ proxyLock.holder = t /\ proxyLock' = FreeLock
                   /\ proc' = proc
         ]_vars

\* a start_kubectl_proxy found a process registered, killed it, and its
\* own spawn failed: the slot is empty
C36_Witness ==
    \E t \in Calls :
        /\ SpawnFailed(t) /\ NoLaterCall(t)
        /\ loc[t].saw # 0 /\ proc[loc[t].saw].kills = 1
        /\ kubectlProxy = 0

====
